---- MODULE Spec2Model ----
(***************************************************************************)
(* Model of the SuperTeacher grading backend: the in-memory session store, *)
(* the CBSE conversation engine (services/cbseChatService.ts), the simple  *)
(* conversation engine (services/chatService.ts), the earlier subclass     *)
(* revision of the CBSE engine (unnamed/part_005), the grading call        *)
(* (services/openaiService.ts), the OCR service (services/ocrService.ts)   *)
(* and the request layer (controllers/chatController.ts).                  *)
(*                                                                         *)
(* One user is modelled: the store keeps one entry per user id and no      *)
(* handler reads another id's entry.  A turn is a request being served;  *)
(* it runs in atomic segments separated by its awaited I/O calls, and the  *)
(* segments of two turns of the same user may interleave.                  *)
(***************************************************************************)
EXTENDS Integers, Sequences, FiniteSets, TLC

VARIABLES
    flow,       \* which engine serves the requests: "cbse", "simple", "legacy",
                \* "request" for the simple engine behind the request layer,
                \* "store" when the session store is called directly,
                \* "services" for the OCR and grading services alone,
                \* "history" for the conversation history with its entries,
                \* and "extract", "intent", "fallback", "layers" and "blocks"
                \* for the pure functions applied to drawn inputs
    session,    \* the user's entry of SessionStore.sessions, or NoSession
    others,     \* the entries of SessionStore.sessions under the other ids the
                \* request layer uses: the user's id as sent with padding, and
                \* the ids it generates for bodies without an id
    turns,      \* slot -> the turn in flight in that slot (pc and locals)
    last        \* what the segment that ran last did (observation only)

vars == <<flow, session, others, turns, last>>

-----------------------------------------------------------------------------
(* Bounds of the model *)

\* number of turns of the same user that may be in flight at once
MaxInFlight == 2
\* a request that adds a grading result is no longer made once the session
\* holds this many results, in the CBSE engines and in the simple engine
MaxResults == 1
MaxSimpleResults == 2
\* the conversation model no longer answers a turn that read a history of
\* this many entries: its call fails instead
MaxHistory == 2

-----------------------------------------------------------------------------
(* JavaScript values *)

\* null and undefined of a string-valued field: both falsy
Null == "null"

\* null and undefined of a field holding a number, a Map or an array are the
\* empty tuple, a value v of such a field is the one-element tuple <<v>>
None == <<>>
Some(v) == <<v>>
Val(o) == o[1]

\* a local constant of the source: F's parameter names the value x
With(x, F(_)) == F(x)

\* the state of a loop after a pass: F's parameter names the value x, which
\* is worked out before F is applied
After(x, F(_)) == IF x = x THEN F(x) ELSE F(x)

\* the least element of a non-empty set of positions
Least(S) == CHOOSE i \in S : \A j \in S : i <= j

\* the store before the user's first request: SessionStore.sessions has no
\* entry for the user id
NoSession == [absent |-> TRUE]

-----------------------------------------------------------------------------
(* Strings: String.prototype.toLowerCase / trim / includes and the regular *)
(* expressions of the handlers, over TLC strings                           *)

Digits == {"0", "1", "2", "3", "4", "5", "6", "7", "8", "9"}

LowerLetters ==
    {"a", "b", "c", "d", "e", "f", "g", "h", "i", "j", "k", "l", "m",
     "n", "o", "p", "q", "r", "s", "t", "u", "v", "w", "x", "y", "z"}

UpperOf ==
    [a |-> "A", b |-> "B", c |-> "C", d |-> "D", e |-> "E", f |-> "F",
     g |-> "G", h |-> "H", i |-> "I", j |-> "J", k |-> "K", l |-> "L",
     m |-> "M", n |-> "N", o |-> "O", p |-> "P", q |-> "Q", r |-> "R",
     s |-> "S", t |-> "T", u |-> "U", v |-> "V", w |-> "W", x |-> "X",
     y |-> "Y", z |-> "Z"]

UpperLetters == {UpperOf[c] : c \in LowerLetters}

CharAt(s, i) == SubSeq(s, i, i)

LowerChar(c) ==
    IF c \in UpperLetters
    THEN CHOOSE l \in LowerLetters : UpperOf[l] = c
    ELSE c

RECURSIVE ToLower(_)
ToLower(s) ==
    IF Len(s) = 0 THEN ""
    ELSE IF Len(s) = 1 THEN LowerChar(CharAt(s, 1))
    ELSE ToLower(SubSeq(s, 1, Len(s) \div 2))
             \o ToLower(SubSeq(s, Len(s) \div 2 + 1, Len(s)))

IsSpace(c) == c = " "

RECURSIVE TrimLeft(_)
TrimLeft(s) ==
    IF Len(s) > 0 /\ IsSpace(CharAt(s, 1))
    THEN TrimLeft(SubSeq(s, 2, Len(s))) ELSE s

RECURSIVE TrimRight(_)
TrimRight(s) ==
    IF Len(s) > 0 /\ IsSpace(CharAt(s, Len(s)))
    THEN TrimRight(SubSeq(s, 1, Len(s) - 1)) ELSE s

Trim(s) == TrimRight(TrimLeft(s))

\* s.includes(p)
Includes(s, p) ==
    \E i \in 1..(Len(s) - Len(p) + 1) : SubSeq(s, i, i + Len(p) - 1) = p

\* s.startsWith(p) at position i (1-based)
StartsAt(s, i, p) == i >= 1 /\ i + Len(p) - 1 <= Len(s) /\ SubSeq(s, i, i + Len(p) - 1) = p

\* \w of a regular expression
IsWordChar(c) == c \in Digits \/ c \in LowerLetters \/ c \in UpperLetters \/ c = "_"

\* \b between positions i-1 and i of s
WordBoundary(s, i) ==
    LET before == i > 1 /\ i - 1 <= Len(s) /\ IsWordChar(CharAt(s, i - 1))
        after  == i >= 1 /\ i <= Len(s) /\ IsWordChar(CharAt(s, i))
    IN  before # after

\* the end of the longest run of characters of set cs starting at i (greedy *)
RECURSIVE SkipWhile(_, _, _)
SkipWhile(s, i, cs) ==
    IF i <= Len(s) /\ CharAt(s, i) \in cs THEN SkipWhile(s, i + 1, cs) ELSE i

DigitVal(c) == CHOOSE d \in 0..9 : CharAt("0123456789", d + 1) = c

\* parseInt(s, 10) of a string of digits
RECURSIVE ParseInt(_)
ParseInt(s) ==
    IF Len(s) = 0 THEN 0
    ELSE 10 * ParseInt(SubSeq(s, 1, Len(s) - 1)) + DigitVal(CharAt(s, Len(s)))

-----------------------------------------------------------------------------
(* Message parsing of the CBSE engine (services/cbseChatService.ts) *)

\* the number matched at start position i by
\* /\b(?:class|grade)?\s*(\d+)(?:\s|$|\b)/i, or "" when there is no match at i
ClassDigitsFrom(s, j) ==
    With(SkipWhile(s, j, {" "}), LAMBDA k :
    With(SkipWhile(s, k, Digits), LAMBDA e :
        IF e > k /\ (e > Len(s) \/ IsSpace(CharAt(s, e)) \/ WordBoundary(s, e))
        THEN SubSeq(s, k, e - 1) ELSE ""))

ClassMatchAt(s, i) ==
    IF ~WordBoundary(s, i) THEN ""
    ELSE With(IF StartsAt(s, i, "class") \/ StartsAt(s, i, "grade")
              THEN ClassDigitsFrom(s, i + 5) ELSE "", LAMBDA withWord :
             IF withWord # "" THEN withWord ELSE ClassDigitsFrom(s, i))

\* the first capture group of the leftmost match, or "" when nothing matches
ClassMatch(s) ==
    With({i \in 1..Len(s) : ClassMatchAt(s, i) # ""}, LAMBDA hits :
        IF hits = {} THEN "" ELSE ClassMatchAt(s, Least(hits)))

\* the switch on classNum: the ClassLevel of a number, Null for any other
ClassLevelOf(classNum) ==
    CASE classNum = 6 -> "class_6"
      [] classNum = 7 -> "class_7"
      [] classNum = 8 -> "class_8"
      [] classNum = 9 -> "class_9"
      [] classNum = 10 -> "class_10"
      [] classNum = 11 -> "class_11"
      [] classNum = 12 -> "class_12"
      [] OTHER -> Null

extractClassLevel(message) ==
    With(ClassMatch(Trim(ToLower(message))), LAMBDA classMatch :
        IF classMatch = "" THEN Null
        ELSE ClassLevelOf(ParseInt(classMatch)))

extractSubjectArea(message) ==
    With(Trim(ToLower(message)), LAMBDA lowerMsg :
        IF Includes(lowerMsg, "math") \/ Includes(lowerMsg, "mathematics")
        THEN "mathematics"
        ELSE IF Includes(lowerMsg, "econ") THEN "economics"
        ELSE IF Includes(lowerMsg, "science") /\ ~Includes(lowerMsg, "social")
        THEN "science"
        ELSE IF Includes(lowerMsg, "english") THEN "english_language_arts"
        ELSE IF Includes(lowerMsg, "history") THEN "history"
        ELSE IF Includes(lowerMsg, "social") \/ Includes(lowerMsg, "social studies")
        THEN "social_studies"
        ELSE IF Includes(lowerMsg, "business") THEN "business_studies"
        ELSE IF Includes(lowerMsg, "account") THEN "accountancy"
        ELSE IF Includes(lowerMsg, "politi") \/ Includes(lowerMsg, "political science")
        THEN "political_science"
        ELSE IF Includes(lowerMsg, "geo") THEN "geography"
        ELSE IF Includes(lowerMsg, "physics") THEN "physics"
        ELSE IF Includes(lowerMsg, "chem") THEN "chemistry"
        ELSE IF Includes(lowerMsg, "bio") THEN "biology"
        ELSE IF Includes(lowerMsg, "computer") THEN "computer_science"
        ELSE Null)

\* the alternative of ws that starts at position i of s, or "" (no alternative
\* of these lists is a prefix of another one that the tail could still match)
AltAt(s, i, ws) ==
    IF \E w \in ws : StartsAt(s, i, w)
    THEN CHOOSE w \in ws : StartsAt(s, i, w) /\ \A v \in ws : StartsAt(s, i, v) => Len(v) <= Len(w)
    ELSE ""

UpdateVerbs == {"should", "to", "is", "has", "have", "update", "change", "set"}
UpdateAux == {"be", "have", "to"}

\* \s*(\d+) at position j: <<start of the digits, position after them>>, the
\* second 0 when there is no digit
DigitsAfterSpaces(s, j) ==
    With(SkipWhile(s, j, {" "}), LAMBDA k :
    With(SkipWhile(s, k, Digits), LAMBDA e :
        IF e > k THEN <<k, e>> ELSE <<k, 0>>))

\* \s*(\d+) at position j, followed by \s*(?:mark|marks) when suffix
MarkedDigits(s, j, suffix) ==
    With(DigitsAfterSpaces(s, j), LAMBDA d :
        IF d[2] > 0 /\ (suffix => StartsAt(s, SkipWhile(s, d[2], {" "}), "mark"))
        THEN d ELSE <<d[1], 0>>)

\* (?:aux)?\s*(\d+) at position a0: the digits, or ""
UpdateAuxDigits(s, a0, auxs, suffix) ==
    With(AltAt(s, a0, auxs), LAMBDA aux :
    With(IF aux = "" THEN <<0, 0>> ELSE MarkedDigits(s, a0 + Len(aux), suffix), LAMBDA withAux :
    With(MarkedDigits(s, a0, suffix), LAMBDA noAux :
        IF withAux[2] > 0 THEN SubSeq(s, withAux[1], withAux[2] - 1)
        ELSE IF noAux[2] > 0 THEN SubSeq(s, noAux[1], noAux[2] - 1)
        ELSE "")))

\* \s*(?:verb)\s*(?:aux)?\s*(\d+) at position j: the digits, or ""
UpdateTailAt(s, j, verbs, auxs, suffix) ==
    With(SkipWhile(s, j, {" "}), LAMBDA v0 :
    With({UpdateAuxDigits(s, SkipWhile(s, v0 + Len(w), {" "}), auxs, suffix) :
              w \in {v \in verbs : StartsAt(s, v0, v)}} \ {""}, LAMBDA good :
        IF good = {} THEN "" ELSE CHOOSE d \in good : TRUE))

\* the two capture groups of an update grammar matched at start position i of
\* the lower-cased message, or <<>> when it does not match at i:
\* (?:question|q)\s*\.?\s*(\d+)(?:[a-z])?\s*(?:verb)\s*(?:aux)?\s*(\d+)
\* and then \s*(?:mark|marks)? or, when suffix, \s*(?:mark|marks)
UpdateMatchAtWith(s, i, verbs, auxs, suffix) ==
    With(AltAt(s, i, {"question", "q"}), LAMBDA head :
    With(SkipWhile(s, i + Len(head), {" "}), LAMBDA p1 :
    With(DigitsAfterSpaces(s, IF StartsAt(s, p1, ".") THEN p1 + 1 ELSE p1), LAMBDA num :
    With(IF num[2] > 0 /\ num[2] <= Len(s) /\ CharAt(s, num[2]) \in LowerLetters
         THEN UpdateTailAt(s, num[2] + 1, verbs, auxs, suffix) ELSE "", LAMBDA tailL :
    With(IF tailL # "" THEN tailL
         ELSE IF num[2] > 0 THEN UpdateTailAt(s, num[2], verbs, auxs, suffix) ELSE "",
         LAMBDA tail :
        IF head = "" \/ num[2] = 0 \/ tail = "" THEN <<>>
        ELSE <<SubSeq(s, num[1], num[2] - 1), tail>>)))))

UpdateMatchWith(message, verbs, auxs, suffix) ==
    With(ToLower(message), LAMBDA s :
    With({i \in 1..Len(s) : UpdateMatchAtWith(s, i, verbs, auxs, suffix) # <<>>}, LAMBDA hits :
        IF hits = {} THEN <<>> ELSE UpdateMatchAtWith(s, Least(hits), verbs, auxs, suffix)))

\* message.match(updatePattern) of processMessageIntent
UpdateMatch(message) == UpdateMatchWith(message, UpdateVerbs, UpdateAux, FALSE)

GreetingWords == {"hi", "hello", "hey", "greetings", "start", "begin"}

\* lowerMsg.match(/^(hi|hello|hey|greetings|start|begin)\b/i)
IsGreeting(lowerMsg) ==
    \E w \in GreetingWords : StartsAt(lowerMsg, 1, w) /\ WordBoundary(lowerMsg, Len(w) + 1)

IsResetPhrase(lowerMsg) ==
    \/ Includes(lowerMsg, "start over")
    \/ Includes(lowerMsg, "restart")
    \/ Includes(lowerMsg, "reset")
    \/ Includes(lowerMsg, "new session")
    \/ Includes(lowerMsg, "another paper")

IsAffirmative(lowerMsg) ==
    \/ Includes(lowerMsg, "yes")
    \/ Includes(lowerMsg, "correct")
    \/ Includes(lowerMsg, "right")
    \/ Includes(lowerMsg, "good")

IsNegative(lowerMsg) ==
    \/ Includes(lowerMsg, "no")
    \/ Includes(lowerMsg, "incorrect")
    \/ Includes(lowerMsg, "wrong")
    \/ Includes(lowerMsg, "not right")

-----------------------------------------------------------------------------
(* ConversationStep (types/index.ts) *)

INITIAL == "initial"
WAITING_FOR_CLASS == "waiting_for_class"
WAITING_FOR_SUBJECT == "waiting_for_subject"
WAITING_FOR_QUESTION_PAPER == "waiting_for_question_paper"
PROCESSING_QUESTION_PAPER == "processing_question_paper"
EXTRACTING_QUESTION_MARKS == "extracting_question_marks"
WAITING_FOR_MARKS_CONFIRMATION == "waiting_for_marks_confirmation"
WAITING_FOR_MARKS_UPDATE == "waiting_for_marks_update"
WAITING_FOR_STUDENT_ANSWER == "waiting_for_student_answer"
WAITING_FOR_QUESTION == "waiting_for_question"
WAITING_FOR_ANSWER == "waiting_for_answer"
WAITING_FOR_INSTRUCTION == "waiting_for_instruction"
GRADING_IN_PROGRESS == "grading_in_progress"
COMPLETE == "complete"
FOLLOW_UP == "follow_up"

ConversationStep ==
    {INITIAL, WAITING_FOR_CLASS, WAITING_FOR_SUBJECT, WAITING_FOR_QUESTION_PAPER,
     PROCESSING_QUESTION_PAPER, EXTRACTING_QUESTION_MARKS,
     WAITING_FOR_MARKS_CONFIRMATION, WAITING_FOR_MARKS_UPDATE,
     WAITING_FOR_STUDENT_ANSWER, WAITING_FOR_QUESTION, WAITING_FOR_ANSWER,
     WAITING_FOR_INSTRUCTION, GRADING_IN_PROGRESS, COMPLETE, FOLLOW_UP}

-----------------------------------------------------------------------------
(* SessionStore (utils/sessionStore.ts).  A session is a record; the fields *)
(* originalImage, gradingApproach, lastInteraction and userId are written   *)
(* but never read by a handler's control flow and are left out.  A field    *)
(* the object does not have (undefined) has the same value as null.         *)

\* the object getSession stores for an unknown user id
NewSession ==
    [question |-> Null, studentAnswer |-> None, subjectArea |-> Null,
     contextualNotes |-> Null, marks |-> None, step |-> WAITING_FOR_QUESTION,
     previousGradingResults |-> None,
     classLevel |-> Null, questionPaper |-> None, questionMarks |-> None,
     isMarkingConfirmed |-> FALSE, conversationHistory |-> None]

getSession(s) == IF s = NoSession THEN NewSession ELSE s

\* { ...currentSession, ...data }
updateSession(s, data) ==
    LET currentSession == getSession(s)
    IN  [f \in DOMAIN currentSession |->
            IF f \in DOMAIN data THEN data[f] ELSE currentSession[f]]

\* the object resetSession stores: it has no CBSE field and no history
resetSession ==
    [question |-> Null, studentAnswer |-> None, subjectArea |-> Null,
     contextualNotes |-> Null, marks |-> None, step |-> INITIAL,
     previousGradingResults |-> Some(<<>>),
     classLevel |-> Null, questionPaper |-> None, questionMarks |-> None,
     isMarkingConfirmed |-> FALSE, conversationHistory |-> None]

\* the id under which the user's entry is stored
ClientId == "u"

\* the ids uuidv4 returns to the request layer; no id is returned twice
GeneratedIds == {"uuid-1"}

\* the ids other than the user's that name an entry of the store
OtherIds == {" u "} \cup GeneratedIds

\* no entry under another id
NoOthers == [id \in OtherIds |-> NoSession]

\* a Map<number, number> is the set of its entries <<key, value>>
MapKeys(m) == {e[1] : e \in m}
MapHas(m, k) == k \in MapKeys(m)
MapGet(m, k) == (CHOOSE e \in m : e[1] = k)[2]

\* Map.prototype.set
MapSet(m, k, v) == {e \in m : e[1] # k} \cup {<<k, v>>}

\* the sum of the values of a Map
RECURSIVE MapSum(_)
MapSum(m) ==
    IF m = {} THEN 0
    ELSE LET e == CHOOSE x \in m : TRUE
         IN  e[2] + MapSum(m \ {e})

\* previousGradingResults || []
ResultsOrEmpty(o) == IF o = None THEN <<>> ELSE Val(o)

\* conversationHistory || [] : a history is modelled by its length
HistoryOrEmpty(o) == IF o = None THEN 0 ELSE Val(o)

\* the length of [...history, user, assistant].slice(-15)
MaxHistoryKept == 15
AppendExchange(history) ==
    IF history + 2 > MaxHistoryKept THEN MaxHistoryKept ELSE history + 2

-----------------------------------------------------------------------------
(* extractQuestionMarks of the CBSE engine.  An OCR text is the tuple of   *)
(* its lines, ocrText.split("\n"); the empty text is <<"">>.                *)

EmptyText == <<"">>

MarksWords == {"marks", "mark", "m"}

\* (\d+)\s*(?:marks?|m) followed by the character close, or by the end of the
\* string when close = "", with the digits starting at q:
\* <<the digits, the position after the match>>, or <<"", 0>>
MarksFormAt(s, q, close) ==
    With(SkipWhile(s, q, Digits), LAMBDA e1 :
    With(SkipWhile(s, e1, {" "}), LAMBDA e2 :
    With({w \in MarksWords :
              /\ StartsAt(s, e2, w)
              /\ IF close = "" THEN e2 + Len(w) = Len(s) + 1
                 ELSE StartsAt(s, e2 + Len(w), close)}, LAMBDA ws :
        IF e1 > q /\ ws # {}
        THEN <<SubSeq(s, q, e1 - 1), e2 + Len(CHOOSE w \in ws : TRUE) + Len(close)>>
        ELSE <<"", 0>>)))

\* \[(\d+)\s*(?:marks?|m)\] or \((\d+)\s*(?:marks?|m)\) with the bracket at i
BracketFormAt(s, i) ==
    IF StartsAt(s, i, "[") THEN MarksFormAt(s, i + 1, "]")
    ELSE IF StartsAt(s, i, "(") THEN MarksFormAt(s, i + 1, ")")
    ELSE <<"", 0>>

\* \s+(\d+)\s*(?:marks?|m)$ with the digits starting at q
TrailingFormAt(s, q) ==
    IF q > 1 /\ IsSpace(CharAt(s, q - 1)) THEN MarksFormAt(s, q, "") ELSE <<"", 0>>

\* questionPattern on a trimmed, lower-cased line: <<>> when the line is not
\* a question line, else <<question number, marks digits or "">>
QuestionLine(l) ==
    With(SkipWhile(l, 1, Digits), LAMBDA e :
    With(SkipWhile(l, e, {" "}), LAMBDA d :
    \* the greedy \s* after the dot is never given back: the lazy text
    \* reaches the end of the line first
    With(SkipWhile(l, d + 1, {" "}), LAMBDA t0 :
    With({BracketFormAt(l, i)[1] :
              i \in {j \in t0..Len(l) : BracketFormAt(l, j)[2] = Len(l) + 1}}, LAMBDA br :
    With({TrailingFormAt(l, q)[1] :
              q \in {j \in (t0 + 1)..Len(l) : TrailingFormAt(l, j)[2] = Len(l) + 1}}, LAMBDA tr :
        IF e = 1 \/ ~StartsAt(l, d, ".") THEN <<>>
        ELSE <<ParseInt(SubSeq(l, 1, e - 1)),
               IF br # {} THEN CHOOSE x \in br : TRUE
               ELSE IF tr # {} THEN CHOOSE x \in tr : TRUE
               ELSE "">>)))))

\* marksPattern on a trimmed, lower-cased continuation line: the digits of
\* the leftmost match, or ""
ContinuationMarks(l) ==
    With({i \in 1..Len(l) : BracketFormAt(l, i)[2] > 0}, LAMBDA br :
    With({q \in 2..Len(l) : TrailingFormAt(l, q)[2] = Len(l) + 1}, LAMBDA tr :
        IF br # {} THEN BracketFormAt(l, Least(br))[1]
        ELSE IF tr # {} THEN TrailingFormAt(l, CHOOSE q \in tr : TRUE)[1]
        ELSE ""))

\* \s*:?\s*(\d+) at position j: the digits, or ""
ColonDigitsAt(s, j) ==
    With(SkipWhile(s, j, {" "}), LAMBDA a :
    With(DigitsAfterSpaces(s, IF StartsAt(s, a, ":") THEN a + 1 ELSE a), LAMBDA withColon :
    With(DigitsAfterSpaces(s, a), LAMBDA noColon :
        IF withColon[2] > 0 THEN SubSeq(s, withColon[1], withColon[2] - 1)
        ELSE IF noColon[2] > 0 /\ noColon[1] = a THEN SubSeq(s, noColon[1], noColon[2] - 1)
        ELSE "")))

\* word\s+Marks\s*:?\s*(\d+) at position i
WordMarksAt(s, i, word) ==
    With(SkipWhile(s, i + Len(word), {" "}), LAMBDA b :
        IF StartsAt(s, i, word) /\ b > i + Len(word) /\ StartsAt(s, b, "marks")
        THEN ColonDigitsAt(s, b + 5) ELSE "")

\* mmPattern at position i of a lower-cased line: the digits of the first
\* alternative that matches there, or ""
MMAt(s, i) ==
    With(IF StartsAt(s, i, "mm:") THEN DigitsAfterSpaces(s, i + 3) ELSE <<0, 0>>, LAMBDA viaColon :
    With(WordMarksAt(s, i, "maximum"), LAMBDA viaMax :
    With(IF StartsAt(s, i, "mm") THEN DigitsAfterSpaces(s, i + 2) ELSE <<0, 0>>, LAMBDA viaMM :
        IF viaColon[2] > 0 THEN SubSeq(s, viaColon[1], viaColon[2] - 1)
        ELSE IF viaMax # "" THEN viaMax
        ELSE IF viaMM[2] > 0 THEN SubSeq(s, viaMM[1], viaMM[2] - 1)
        ELSE WordMarksAt(s, i, "total"))))

\* line.match(mmPattern): the digits of the leftmost match, or ""
MMMatch(line) ==
    With(ToLower(line), LAMBDA s :
    With({i \in 1..Len(s) : MMAt(s, i) # ""}, LAMBDA hits :
        IF hits = {} THEN "" ELSE MMAt(s, Least(hits))))

\* the header scan: the total of the first of the first 15 lines that
\* matches mmPattern, 0 when none does
RECURSIVE HeaderTotalFrom(_, _)
HeaderTotalFrom(lines, i) ==
    IF i > Len(lines) \/ i > 15 THEN 0
    ELSE With(MMMatch(lines[i]), LAMBDA mmMatch :
             IF mmMatch # "" THEN ParseInt(mmMatch)
             ELSE HeaderTotalFrom(lines, i + 1))

\* one pass of the line loop over a trimmed, lower-cased line; st.cur is
\* currentQuestionNumber, st.marks is questionMarks, st.texts the keys that
\* questionText has
ExtractLine(line, st) ==
    With(QuestionLine(line), LAMBDA qm :
    With(ContinuationMarks(line), LAMBDA cm :
        IF Len(line) = 0 THEN st
        ELSE IF qm # <<>>
        THEN [cur |-> qm[1],
              marks |-> IF qm[2] # "" THEN MapSet(st.marks, qm[1], ParseInt(qm[2]))
                        ELSE st.marks,
              texts |-> IF qm[1] > 0 THEN st.texts \cup {qm[1]} ELSE st.texts]
        ELSE IF st.cur > 0 /\ cm # "" /\ ~MapHas(st.marks, st.cur)
        THEN [st EXCEPT !.marks = MapSet(st.marks, st.cur, ParseInt(cm))]
        ELSE st))

\* the line loop over lines lo..hi: the passes over the first half of them,
\* then the passes over the rest
RECURSIVE ExtractLinesFrom(_, _, _, _)
ExtractLinesFrom(lines, lo, hi, st) ==
    IF lo > hi THEN st
    ELSE IF lo = hi THEN ExtractLine(ToLower(Trim(lines[lo])), st)
    ELSE After(ExtractLinesFrom(lines, lo, (lo + hi) \div 2, st), LAMBDA half :
             ExtractLinesFrom(lines, (lo + hi) \div 2 + 1, hi, half))

\* the standard distribution applied to the questions of range qs that
\* questionText has
StandardMarks(marks, texts, qs, m) ==
    marks \cup {<<q, m>> : q \in qs \cap texts}

\* the tail of extractQuestionMarks: the standard distribution replaces an
\* empty result when the header total is 40; texts is the key set of
\* questionText
StandardDistribution(totalMarksInHeader, marks, texts) ==
    LET m1 == IF 1 \in texts /\ (5 \in texts \/ 6 \in texts)
              THEN StandardMarks({}, texts, 1..5, 2) ELSE {}
        m2 == IF 6 \in texts /\ (10 \in texts \/ 11 \in texts)
              THEN StandardMarks(m1, texts, 6..10, 3) ELSE m1
        m3 == IF 11 \in texts /\ 12 \in texts
              THEN StandardMarks(m2, texts, 11..13, 5) ELSE m2
    IN  IF totalMarksInHeader = 40 /\ marks = {} THEN m3 ELSE marks

\* the line loop of extractQuestionMarks from its initial state
ExtractLines(ocrText) ==
    ExtractLinesFrom(ocrText, 1, Len(ocrText), [cur |-> 0, marks |-> {}, texts |-> {}])

\* extractQuestionMarks(ocrText).marks
ExtractedMarks(totalMarksInHeader, st) ==
    StandardDistribution(totalMarksInHeader, st.marks, st.texts)

extractQuestionMarks(ocrText) ==
    ExtractedMarks(HeaderTotalFrom(ocrText, 1), ExtractLines(ocrText))

-----------------------------------------------------------------------------
(* Numbers and grading results *)

\* Math.round(a / b) for b > 0
Round(a, b) == (2 * a + b) \div (2 * b)

Min(a, b) == IF a <= b THEN a ELSE b
Max(a, b) == IF a >= b THEN a ELSE b

\* JavaScript numbers are IEEE 754 doubles, of 52 fraction bits
FractionBits == 52

\* the exponent of the double nearest to a / b, for a > 0 and b > 0:
\* 2^Binade(a, b) <= a / b < 2^(Binade(a, b) + 1)
RECURSIVE Binade(_, _)
Binade(a, b) ==
    IF a >= 2 * b THEN Binade(a, 2 * b) + 1
    ELSE IF a < b THEN Binade(2 * a, b) - 1
    ELSE 0

RECURSIVE Pow2(_)
Pow2(n) == IF n = 0 THEN 1 ELSE 2 * Pow2(n - 1)

\* 2^n modulo m
RECURSIVE Pow2Mod(_, _)
Pow2Mod(n, m) == IF n = 0 THEN 1 % m ELSE (2 * Pow2Mod(n - 1, m)) % m

\* textLength / 300 as a double: the quotient is rounded to the nearest
\* double, which is textLength / 300 + DivisionError(textLength) / 300 units
\* in its last place (negative when the double lies below the quotient)
DivisionError(textLength) ==
    LET r == ((textLength % 300)
                 * Pow2Mod(FractionBits - Binade(textLength, 300), 300)) % 300
    IN  IF r < 150 THEN 0 - r ELSE 300 - r

\* Math.round((textLength / 300) * marks): the product of doubles is rounded
\* to the nearest double and that to the nearest integer, a half going up.
\* The doubles matter only where textLength * marks / 300 is exactly a half:
\* the product then falls below the half, and is rounded down, when the
\* error of the quotient times marks exceeds half a unit in the last place
\* of the product (a quarter of it at 0.5, the lowest double of its binade)
RoundOfProduct(textLength, marks) ==
    LET exact == textLength * marks
        half == IF exact = 150 THEN 75 ELSE 150
        below == (0 - DivisionError(textLength)) * marks
                     > half * Pow2(Binade(exact, 300) - Binade(textLength, 300))
    IN  IF exact % 300 # 150 THEN Round(exact, 300)
        ELSE IF below THEN exact \div 300
        ELSE exact \div 300 + 1

\* a JavaScript number that is the quotient n / d; d = 0 is NaN or an infinity
Quot(n, d) == [n |-> n, d |-> d]
SameNumber(p, q) == p.d # 0 /\ q.d # 0 /\ p.n * q.d = q.n * p.d

\* the fields of a GradingResult that the handlers compute or test.  outOf
\* and percentage are None when the object has no such field; is_relevant is
\* "true", "false" or "undefined"; feedback tells the local fallback text
\* from a text written by the remote model
GradingResult(score, outOf, percentage, relevant, feedback) ==
    [score |-> score, outOf |-> outOf, percentage |-> percentage,
     is_relevant |-> relevant, feedback |-> feedback]

-----------------------------------------------------------------------------
(* extractQuestionMarks of the subclass revision (unnamed/part_005): the   *)
(* header total, the distribution phrases, the MARKS column, the inline    *)
(* patterns, the distribution fill and the last-resort scan                *)

\* (\d+)\s*questions?\s*of\s*(\d+)\s*marks?\s*each with the first digits at
\* position i of a lower-cased line: <<count, marks>>, or <<>>
DistributionAt(s, i) ==
    With(SkipWhile(s, i, Digits), LAMBDA e1 :
    With(SkipWhile(s, e1, {" "}), LAMBDA q0 :
    With(SkipWhile(s, IF StartsAt(s, q0 + 8, "s") THEN q0 + 9 ELSE q0 + 8, {" "}), LAMBDA o0 :
    With(DigitsAfterSpaces(s, o0 + 2), LAMBDA num :
    With(SkipWhile(s, Max(num[2], 1), {" "}), LAMBDA m0 :
        IF /\ e1 > i /\ StartsAt(s, q0, "question") /\ StartsAt(s, o0, "of")
           /\ num[2] > 0 /\ StartsAt(s, m0, "mark")
           /\ StartsAt(s, SkipWhile(s, IF StartsAt(s, m0 + 4, "s") THEN m0 + 5 ELSE m0 + 4,
                                    {" "}), "each")
        THEN <<ParseInt(SubSeq(s, i, e1 - 1)), ParseInt(SubSeq(s, num[1], num[2] - 1))>>
        ELSE <<>>)))))

\* lines[i].match(distribution pattern): the leftmost match, or <<>>
DistributionOf(line) ==
    With(ToLower(line), LAMBDA s :
    With({i \in 1..Len(s) : DistributionAt(s, i) # <<>>}, LAMBDA hits :
        IF hits = {} THEN <<>> ELSE DistributionAt(s, Least(hits))))

\* markDistributions: the distributions of the first 20 lines, in order
RECURSIVE markDistributionsFrom(_, _)
markDistributionsFrom(lines, i) ==
    IF i > Len(lines) \/ i > 20 THEN <<>>
    ELSE With(DistributionOf(lines[i]), LAMBDA d :
             (IF d = <<>> THEN <<>> ELSE <<d>>) \o markDistributionsFrom(lines, i + 1))

\* line.toUpperCase().indexOf("MARKS"): 0-based, -1 when absent
IndexOfMarks(line) ==
    With(ToLower(line), LAMBDA s :
    With({i \in 1..Len(s) : StartsAt(s, i, "marks")}, LAMBDA hits :
        IF hits = {} THEN -1 ELSE Least(hits) - 1))

\* marksColumnIndex: of the first of the first 20 lines where it is positive,
\* -1 when hasMarksColumn stays false
RECURSIVE marksColumnIndexFrom(_, _)
marksColumnIndexFrom(lines, i) ==
    IF i > Len(lines) \/ i > 20 THEN -1
    ELSE IF IndexOfMarks(lines[i]) > 0 THEN IndexOfMarks(lines[i])
    ELSE marksColumnIndexFrom(lines, i + 1)

\* the digits d[1]..d[2]-1 of s, "" when d[2] = 0
DigitsOf(s, d) == IF d[2] > 0 THEN SubSeq(s, d[1], d[2] - 1) ELSE ""

\* line.match(/^(?:\s*|\s*Q\.?\s*|\s*Question\s+)(\d+)/i): the digits, or ""
TableQuestionNumber(line) ==
    With(ToLower(line), LAMBDA s :
    With(SkipWhile(s, 1, {" "}), LAMBDA a :
    With(DigitsAfterSpaces(s, 1), LAMBDA plain :
    With(IF StartsAt(s, a, "q")
         THEN DigitsAfterSpaces(s, IF StartsAt(s, a + 1, ".") THEN a + 2 ELSE a + 1)
         ELSE <<0, 0>>, LAMBDA viaQ :
    With(IF StartsAt(s, a, "question ") THEN DigitsAfterSpaces(s, a + 8) ELSE <<0, 0>>,
         LAMBDA viaQuestion :
        IF plain[2] > 0 THEN DigitsOf(s, plain)
        ELSE IF viaQ[2] > 0 THEN DigitsOf(s, viaQ)
        ELSE DigitsOf(s, viaQuestion))))))

\* one pass of the table loop: the marks read at the column of the header
TableLine(line, marksColumnIndex, marks) ==
    With(TableQuestionNumber(line), LAMBDA qNumberMatch :
    With(IF Len(line) > marksColumnIndex
         THEN DigitsOf(line, DigitsAfterSpaces(line, marksColumnIndex + 1)) ELSE "",
         LAMBDA marksMatch :
        IF qNumberMatch # "" /\ ParseInt(qNumberMatch) > 0 /\ ParseInt(marksMatch) > 0
        THEN MapSet(marks, ParseInt(qNumberMatch), ParseInt(marksMatch))
        ELSE marks))

RECURSIVE TableFrom(_, _, _, _)
TableFrom(lines, i, marksColumnIndex, marks) ==
    IF i > Len(lines) THEN marks
    ELSE After(TableLine(lines[i], marksColumnIndex, marks), LAMBDA next :
             TableFrom(lines, i + 1, marksColumnIndex, next))

\* head\s*(\d+) at position i, with \.?\s* before the digits when dot
HeadDigitsAt(s, i, head, dot) ==
    IF ~StartsAt(s, i, head) THEN <<0, 0>>
    ELSE With(SkipWhile(s, i + Len(head), {" "}), LAMBDA p :
             DigitsAfterSpaces(s, IF dot /\ StartsAt(s, p, ".") THEN p + 1 ELSE p))

\* the digits of the leftmost match of head\s*(\d+), or ""
HeadDigits(s, head, dot) ==
    With({i \in 1..Len(s) : HeadDigitsAt(s, i, head, dot)[2] > 0}, LAMBDA hits :
        IF hits = {} THEN "" ELSE DigitsOf(s, HeadDigitsAt(s, Least(hits), head, dot)))

\* /^(\d+)\s*\.\s/ and /^(\d+)\s+/ : the digits, or ""
LeadingNumber(s) ==
    With(SkipWhile(s, 1, Digits), LAMBDA e :
    With(SkipWhile(s, e, {" "}), LAMBDA d :
        IF e > 1 /\ ((StartsAt(s, d, ".") /\ StartsAt(s, d + 1, " ")) \/ StartsAt(s, e, " "))
        THEN SubSeq(s, 1, e - 1) ELSE ""))

\* questionPatterns on a trimmed, lower-cased line: the digits captured by
\* the first pattern that matches, or ""
QuestionNumberOf(s) ==
    IF HeadDigits(s, "q.no.", FALSE) # "" THEN HeadDigits(s, "q.no.", FALSE)
    ELSE IF HeadDigits(s, "question", FALSE) # "" THEN HeadDigits(s, "question", FALSE)
    ELSE IF HeadDigits(s, "q", TRUE) # "" THEN HeadDigits(s, "q", TRUE)
    ELSE LeadingNumber(s)

\* (\d+)\s*marks? with the digits at q, followed by close or, when close is
\* "", by the end of the string: the digits, or ""
MarkWordAt(s, q, close) ==
    With(SkipWhile(s, q, Digits), LAMBDA e1 :
    With(SkipWhile(s, e1, {" "}), LAMBDA e2 :
    With(IF StartsAt(s, e2 + 4, "s") THEN e2 + 5 ELSE e2 + 4, LAMBDA e3 :
        IF /\ e1 > q /\ StartsAt(s, e2, "mark")
           /\ IF close = "" THEN e3 = Len(s) + 1 ELSE StartsAt(s, e3, close)
        THEN SubSeq(s, q, e1 - 1) ELSE "")))

\* the number captured by the leftmost match of open(\d+)\s*marks?close, 0
\* when there is no match
MarkWord(s, open, close) ==
    With({i \in 1..Len(s) : StartsAt(s, i, open) /\ MarkWordAt(s, i + Len(open), close) # ""},
         LAMBDA hits :
        IF hits = {} THEN 0 ELSE ParseInt(MarkWordAt(s, Least(hits) + Len(open), close)))

\* (\d+)\s*m\b with the digits at q: the digits, or ""
ShorthandAt(s, q) ==
    With(SkipWhile(s, q, Digits), LAMBDA e1 :
    With(SkipWhile(s, e1, {" "}), LAMBDA e2 :
        IF e1 > q /\ StartsAt(s, e2, "m") /\ WordBoundary(s, e2 + 1)
        THEN SubSeq(s, q, e1 - 1) ELSE ""))

Shorthand(s) ==
    With({i \in 1..Len(s) : ShorthandAt(s, i) # ""}, LAMBDA hits :
        IF hits = {} THEN 0 ELSE ParseInt(ShorthandAt(s, Least(hits))))

\* /^(\d+)$/ : the number, 0 when the line is not a number
WholeNumber(s) ==
    IF Len(s) > 0 /\ SkipWhile(s, 1, Digits) = Len(s) + 1 THEN ParseInt(s) ELSE 0

\* marksPatterns on a trimmed, lower-cased line: the marks of the first
\* pattern that captures a positive number, 0 when none does
MarksOfLine(s) ==
    IF MarkWord(s, "[", "]") > 0 THEN MarkWord(s, "[", "]")
    ELSE IF MarkWord(s, "(", ")") > 0 THEN MarkWord(s, "(", ")")
    ELSE IF MarkWord(s, "", "") > 0 THEN MarkWord(s, "", "")
    ELSE IF WholeNumber(s) > 0 THEN WholeNumber(s)
    ELSE Shorthand(s)

\* a pass of the pattern loop without the test questionMarks.has: the marks
\* of the line replace those the question already has
PatternLineOverwriting(lines, i, marks) ==
    With(ToLower(Trim(lines[i])), LAMBDA line :
    With(QuestionNumberOf(line), LAMBDA match :
    With(MarksOfLine(line), LAMBDA own :
    With(IF i < Len(lines) THEN MarksOfLine(ToLower(Trim(lines[i + 1]))) ELSE 0, LAMBDA next :
        IF Len(line) = 0 \/ line = "or" \/ match = "" THEN marks
        ELSE IF own > 0 THEN MapSet(marks, ParseInt(match), own)
        ELSE IF next > 0 THEN MapSet(marks, ParseInt(match), next)
        ELSE marks))))

\* one pass of the pattern loop over line i
PatternLine(lines, i, marks) ==
    With(ToLower(Trim(lines[i])), LAMBDA line :
    With(QuestionNumberOf(line), LAMBDA match :
    With(MarksOfLine(line), LAMBDA own :
    With(IF i < Len(lines) THEN MarksOfLine(ToLower(Trim(lines[i + 1]))) ELSE 0, LAMBDA next :
        IF Len(line) = 0 \/ line = "or" \/ match = "" THEN marks
        ELSE IF MapHas(marks, ParseInt(match)) THEN marks
        ELSE IF own > 0 THEN MapSet(marks, ParseInt(match), own)
        ELSE IF next > 0 THEN MapSet(marks, ParseInt(match), next)
        ELSE marks))))

RECURSIVE PatternLinesFrom(_, _, _)
PatternLinesFrom(lines, i, marks) ==
    IF i > Len(lines) THEN marks
    ELSE After(PatternLine(lines, i, marks), LAMBDA next :
             PatternLinesFrom(lines, i + 1, next))

\* the marks of the distribution that covers position questionIndex
RECURSIVE DistributionMarksAt(_, _)
DistributionMarksAt(markDistributions, questionIndex) ==
    IF questionIndex <= markDistributions[1][1] THEN markDistributions[1][2]
    ELSE DistributionMarksAt(Tail(markDistributions), questionIndex - markDistributions[1][1])

RECURSIVE DistributionCount(_)
DistributionCount(markDistributions) ==
    IF markDistributions = <<>> THEN 0
    ELSE markDistributions[1][1] + DistributionCount(Tail(markDistributions))

\* the distribution fill: the questions up to the highest one found that
\* still have no marks take the marks of their position
FillMissing(markDistributions, totalMarksInHeader, marks) ==
    With(IF marks = {} THEN 0 ELSE CHOOSE k \in MapKeys(marks) : \A j \in MapKeys(marks) : j <= k,
         LAMBDA highestQuestion :
        IF Len(markDistributions) > 0 /\ Cardinality(marks) < totalMarksInHeader
        THEN marks \cup
             {<<q, DistributionMarksAt(markDistributions, q)>> :
                  q \in {k \in 1..Min(highestQuestion, DistributionCount(markDistributions)) :
                             ~MapHas(marks, k)}}
        ELSE marks)

\* lines.join(" ")
RECURSIVE JoinLines(_)
JoinLines(lines) ==
    IF Len(lines) = 0 THEN ""
    ELSE IF Len(lines) = 1 THEN lines[1]
    ELSE lines[1] \o " " \o JoinLines(Tail(lines))

\* \s+(\d+) can start at position p
MarksFollow(s, p) ==
    /\ p <= Len(s) /\ IsSpace(CharAt(s, p))
    /\ SkipWhile(s, SkipWhile(s, p, {" "}), Digits) > SkipWhile(s, p, {" "})

\* where the lazy .{10,100}? stops when the spaces after the dot end before
\* position b and start at position a: the least stop that leaves it 10 to
\* 100 characters from b, else the greatest one that does so from a start
\* the \s+ gives back; 0 when there is none
LazyStop(s, a, b) ==
    With({p \in (b + 10)..Min(b + 100, Len(s)) : MarksFollow(s, p)}, LAMBDA far :
    With({p \in (a + 11)..Min(b + 9, Len(s)) : MarksFollow(s, p)}, LAMBDA near :
        IF far # {} THEN Least(far)
        ELSE IF near # {} THEN CHOOSE p \in near : \A r \in near : r <= p
        ELSE 0))

\* the position after \s*(?:marks?|m)? at position e
AfterMarksWord(s, e) ==
    With(SkipWhile(s, e, {" "}), LAMBDA w :
        IF StartsAt(s, w, "marks") THEN w + 5
        ELSE IF StartsAt(s, w, "mark") THEN w + 4
        ELSE IF StartsAt(s, w, "m") THEN w + 1
        ELSE w)

\* fallbackPattern matched at position i of the joined text:
\* <<question digits, marks digits, position after the match>>, or <<>>
FallbackAt(s, i) ==
    With(SkipWhile(s, i, Digits), LAMBDA e1 :
    With(SkipWhile(s, e1, {" "}), LAMBDA d :
    With(SkipWhile(s, d + 1, {" "}), LAMBDA b :
    With(IF e1 > i /\ StartsAt(s, d, ".") /\ b > d + 1 THEN LazyStop(s, d + 1, b) ELSE 0,
         LAMBDA p :
    With(SkipWhile(s, Max(p, 1), {" "}), LAMBDA r :
        IF p = 0 THEN <<>>
        ELSE <<SubSeq(s, i, e1 - 1), SubSeq(s, r, SkipWhile(s, r, Digits) - 1),
               AfterMarksWord(s, SkipWhile(s, r, Digits))>>)))))

\* the loop of fallbackPattern.exec from position pos
RECURSIVE FallbackFrom(_, _, _)
FallbackFrom(s, pos, marks) ==
    With({i \in pos..Len(s) : FallbackAt(s, i) # <<>>}, LAMBDA hits :
        IF hits = {} THEN marks
        ELSE With(FallbackAt(s, Least(hits)), LAMBDA match :
                 FallbackFrom(s, match[3],
                     IF /\ ParseInt(match[1]) > 0 /\ ParseInt(match[2]) > 0
                        /\ ParseInt(match[2]) <= 20
                     THEN MapSet(marks, ParseInt(match[1]), ParseInt(match[2]))
                     ELSE marks)))

\* the layers after the header scan and the distribution scan
LayeredMarks(lines, totalMarksInHeader, markDistributions, marksColumnIndex) ==
    With(FillMissing(markDistributions, totalMarksInHeader,
             PatternLinesFrom(lines, 1,
                 IF marksColumnIndex > 0 THEN TableFrom(lines, 1, marksColumnIndex, {})
                 ELSE {})), LAMBDA questionMarks :
        IF questionMarks = {} THEN FallbackFrom(JoinLines(lines), 1, {})
        ELSE questionMarks)

\* CbseChatService.extractQuestionMarks of unnamed/part_005
legacyExtractQuestionMarks(ocrText) ==
    LayeredMarks(ocrText, HeaderTotalFrom(ocrText, 1), markDistributionsFrom(ocrText, 1),
                 marksColumnIndexFrom(ocrText, 1))

-----------------------------------------------------------------------------
(* The CBSE engine: state handling (services/cbseChatService.ts) *)

\* the fields getOrCreateSession writes when the session has no class level
CbseFreshFields ==
    [question |-> Null, studentAnswer |-> None, subjectArea |-> Null,
     contextualNotes |-> Null, marks |-> None, step |-> INITIAL,
     previousGradingResults |-> Some(<<>>),
     classLevel |-> Null, questionPaper |-> None, questionMarks |-> None,
     isMarkingConfirmed |-> FALSE, conversationHistory |-> Some(0)]

\* CbseChatService.getOrCreateSession: the stored session afterwards
cbseGetOrCreateSession(s) ==
    LET existingSession == getSession(s)
    IN  IF existingSession.classLevel = Null
        THEN updateSession(existingSession, CbseFreshFields)
        ELSE existingSession

\* what processMessageIntent derives from the text of a message
CbseParse(message) ==
    LET lowerMsg == Trim(ToLower(message))
    IN  [classLevel |-> extractClassLevel(message),
         subjectArea |-> extractSubjectArea(message),
         affirmative |-> IsAffirmative(lowerMsg),
         negative |-> IsNegative(lowerMsg),
         match |-> UpdateMatch(message),
         greeting |-> IsGreeting(lowerMsg),
         reset |-> IsResetPhrase(lowerMsg)]

\* processMessageIntent: the stored session afterwards; snap is the session
\* object the caller read, store the stored session when the call starts, m
\* is CbseParse(message)
CbseIntentOf(store, m, snap) ==
    LET s1 == IF m.classLevel # Null /\ snap.step \in {INITIAL, WAITING_FOR_CLASS}
              THEN updateSession(store, [classLevel |-> m.classLevel,
                                         step |-> WAITING_FOR_SUBJECT])
              ELSE store
        s2 == IF /\ m.subjectArea # Null
                 /\ \/ snap.step = WAITING_FOR_SUBJECT
                    \/ snap.step = INITIAL /\ m.classLevel # Null
              THEN updateSession(s1, [subjectArea |-> m.subjectArea,
                                      step |-> WAITING_FOR_QUESTION_PAPER])
              ELSE s1
        s3 == IF snap.step # WAITING_FOR_MARKS_CONFIRMATION THEN s2
              ELSE IF m.affirmative
              THEN updateSession(s2, [isMarkingConfirmed |-> TRUE,
                                      step |-> WAITING_FOR_STUDENT_ANSWER])
              ELSE IF m.negative
              THEN updateSession(s2, [step |-> WAITING_FOR_MARKS_UPDATE])
              ELSE s2
        s4 == IF /\ snap.step = WAITING_FOR_MARKS_UPDATE
                 /\ m.match # <<>>
                 /\ snap.questionMarks # None
              THEN updateSession(s3,
                     [questionMarks |->
                          Some(MapSet(Val(snap.questionMarks),
                                      ParseInt(m.match[1]), ParseInt(m.match[2]))),
                      step |-> WAITING_FOR_MARKS_CONFIRMATION])
              ELSE s3
    IN  IF m.greeting
        THEN updateSession(s4, [step |-> WAITING_FOR_CLASS])
        ELSE IF m.reset
        THEN updateSession(resetSession,
               [step |-> WAITING_FOR_CLASS,
                conversationHistory |-> Some(HistoryOrEmpty(snap.conversationHistory))])
        ELSE s4

processMessageIntent(store, message, snap) == CbseIntentOf(store, CbseParse(message), snap)

\* getFallbackCbseGrading; the student answer is given by its length
getFallbackCbseGrading(textLength, totalMarks) ==
    LET byLength == Min(RoundOfProduct(textLength, totalMarks), totalMarks)
        score == Min(Max(Round(4 * totalMarks, 10), byLength), Round(8 * totalMarks, 10))
    IN  GradingResult(score, Some(totalMarks), Some(Quot(100 * score, totalMarks)),
                      "undefined", "fallback")

\* formatCbseGradingResponse throws when it maps over a list the reply lacks
FormatThrows(reply) ==
    LET isRelevant == reply.is_relevant # "false" /\ reply.score > 0
    IN  isRelevant /\ ~reply.lists

-----------------------------------------------------------------------------
(* Requests and the replies of the remote collaborators *)

\* text messages of a teacher
CbseMessages ==
    {"hi", "Class 10", "Class 10 math", "yes", "no", "incorrect",
     "Question 3 should be 5 marks", "Question 2 should be 0 marks", "reset",
     "start over"}

\* CbseParse of the messages above, computed once
CbseParsed == [m \in CbseMessages |-> CbseParse(m)]

\* a question paper of two questions, 2 and 3 marks
MarkedPaper == <<"MM: 5", "1. Define demand [2 marks]", "2. Explain GDP (3 marks)">>

\* what openaiService.analyzeImage returns for a question paper image
PaperTexts == {MarkedPaper, EmptyText}

\* extractQuestionMarks of the texts above, computed once
PaperMarks == [x \in PaperTexts |-> extractQuestionMarks(x)]

\* what openaiService.generateText returns for the structure prompt: JSON
\* that parses to an object with a questions array (texts: every question
\* has a text), or a body JSON.parse or the questions loop throws on
Unparseable == [parses |-> FALSE]

TwoQuestions == [parses |-> TRUE, questions |-> {<<1, 2>>, <<2, 3>>}, texts |-> TRUE]

StructureReplies ==
    {TwoQuestions,
     [parses |-> TRUE, questions |-> {}, texts |-> TRUE],
     [parses |-> TRUE, questions |-> {<<1, 4>>}, texts |-> FALSE],
     Unparseable}

\* the length of the text openaiService.analyzeImage returns for a student
\* answer image
AnswerLengths == {0, 450}

\* what the remote model returns for a grading prompt: a JSON object with a
\* numeric score (lists: it has the strengths, areas_for_improvement and
\* suggested_points arrays), or a body that does not parse
RelevantReply ==
    [parses |-> TRUE, score |-> 7, is_relevant |-> "true", lists |-> TRUE,
     outOf |-> Some(100), percentage |-> Some(Quot(70, 1))]

IrrelevantReply ==
    [parses |-> TRUE, score |-> 8, is_relevant |-> "false", lists |-> TRUE,
     outOf |-> None, percentage |-> None]

ListlessReply ==
    [parses |-> TRUE, score |-> 3, is_relevant |-> "true", lists |-> FALSE,
     outOf |-> Some(5), percentage |-> Some(Quot(60, 1))]

GradeReplies == {RelevantReply, IrrelevantReply, ListlessReply, Unparseable}

\* the length of the text ocrService.extractTextFromImageUrl resolves with
\* for the image of an answer: never fewer than 5 characters
OcrLengths == {120, 450}

\* the imageUrl argument of processImageFromUrl, a string; an uploaded image
\* has the URL that uploadFile resolved with.  For every string
\* ocrService.extractTextFromImageUrl resolves, with the remote text or with
\* the demo text of handleOcrFailure: it never rejects
ImageUrls == {"https://host/answer.jpg"}

\* openaiService.analyzeImage, generateText and generateConversation are
\* methods of a revision of services/openaiService.ts other than the one at
\* hand: the collaborators fail closed, a call rejects on a transport error
\* instead of resolving with an empty text
RemoteRejects(call) ==
    call \in {"analyzeImage", "generateText", "generateConversation"}

-----------------------------------------------------------------------------
(* Turns *)

Slots == 1..MaxInFlight

\* a slot with no request in it
Idle ==
    [pc |-> "idle", op |-> "", msg |-> "", from |-> "", snap |-> NewSession,
     data |-> <<>>, note |-> ""]

\* a request is accepted into the lowest free slot
Free(t) == turns[t].pc = "idle" /\ \A u \in 1..(t - 1) : turns[u].pc # "idle"

AllIdle == \A t \in Slots : turns[t].pc = "idle"

\* the step of the stored session, "none" before the first request
StepOf(s) == IF s = NoSession THEN "none" ELSE s.step

\* the turn cur of slot t moves to position pc with the session object snap
Goto(t, cur, pc, snap, data, note) ==
    turns' = [turns EXCEPT ![t] = [cur EXCEPT !.pc = pc, !.snap = snap,
                                               !.data = data, !.note = note]]

\* the fields of a session object that a turn still reads after an await
Keep(s, fields) == [f \in DOMAIN NewSession |-> IF f \in fields THEN s[f] ELSE NewSession[f]]

\* a request accepted into a slot
NewTurn(op, message, from) == [Idle EXCEPT !.op = op, !.msg = message, !.from = from]

\* the turn in slot t returns (end = "reply") or throws to the controller
EndTurn(t, end) ==
    /\ turns' = [turns EXCEPT ![t] = Idle]
    /\ last' = [op |-> turns[t].op, msg |-> turns[t].msg, from |-> turns[t].from,
                note |-> turns[t].note, end |-> end]

NoTurn == [op |-> "", msg |-> "", from |-> "", note |-> "", end |-> ""]

-----------------------------------------------------------------------------
(* The CBSE engine: turns (services/cbseChatService.ts) *)

\* generateConversationalResponse up to its await: getOrCreateSession, and
\* the session object it returned is kept for the history write
CbseRespond(t, cur, store, note) ==
    LET s == cbseGetOrCreateSession(store)
    IN  session' = s /\ Goto(t, cur, "conv", Keep(s, {"conversationHistory"}), <<>>, note)

\* processTextMessage up to the await of generateConversation
CbseTextMessage(t, message) ==
    /\ flow = "cbse" /\ Free(t)
    /\ LET snap == cbseGetOrCreateSession(session)
           s == cbseGetOrCreateSession(CbseIntentOf(snap, CbseParsed[message], snap))
       IN  /\ session' = s
           /\ Goto(t, NewTurn("text", message, StepOf(session)), "conv",
                   Keep(s, {"conversationHistory"}), <<>>, "")
    /\ last' = NoTurn
    /\ UNCHANGED <<flow, others>>

\* generateConversation resolved: the history write, and the turn returns
CbseConversationReply(t) ==
    /\ flow = "cbse" /\ turns[t].pc = "conv"
    /\ HistoryOrEmpty(turns[t].snap.conversationHistory) < MaxHistory
    /\ session' = updateSession(session,
          [conversationHistory |->
               Some(AppendExchange(HistoryOrEmpty(turns[t].snap.conversationHistory)))])
    /\ EndTurn(t, "reply")
    /\ UNCHANGED <<flow, others>>

\* generateConversation threw: getFallbackResponse, nothing is written
CbseConversationFails(t) ==
    /\ flow = "cbse" /\ turns[t].pc = "conv"
    /\ RemoteRejects("generateConversation")
    /\ EndTurn(t, "reply")
    /\ UNCHANGED <<flow, others, session>>

\* processQuestionPaperUrl up to the await of analyzeImage
CbseQuestionPaperBegin(t, cur, store) ==
    LET s == cbseGetOrCreateSession(store)
    IN  /\ session' = updateSession(s, [step |-> PROCESSING_QUESTION_PAPER])
        /\ Goto(t, cur, "qp_ocr", Keep(s, {}), <<>>, "")

\* processStudentAnswerUrl up to the await of analyzeImage
CbseStudentAnswerBegin(t, cur, store) ==
    LET s == cbseGetOrCreateSession(store)
    IN  IF s.questionPaper \in {None, Some(EmptyText)} \/ s.questionMarks = None
           \/ ~s.isMarkingConfirmed
        THEN CbseRespond(t, cur, s, "not_ready")
        ELSE /\ Len(ResultsOrEmpty(s.previousGradingResults)) < MaxResults
             /\ session' = updateSession(s, [step |-> GRADING_IN_PROGRESS])
             /\ Goto(t, cur, "sa_ocr",
                     Keep(s, {"questionMarks", "previousGradingResults"}), <<>>, "")

\* the switch of processImageUpload (op = "upload") and of processImageFromUrl
\* (op = "url") on the step of the session object read when the turn began
CbseImageSwitch(t, cur, op, step, store) ==
    IF step = WAITING_FOR_QUESTION_PAPER THEN CbseQuestionPaperBegin(t, cur, store)
    ELSE IF step = WAITING_FOR_STUDENT_ANSWER THEN CbseStudentAnswerBegin(t, cur, store)
    ELSE IF op = "upload" /\ step \in {COMPLETE, FOLLOW_UP}
    THEN CbseRespond(t, cur, updateSession(resetSession, [step |-> WAITING_FOR_CLASS]), "new_session")
    ELSE CbseRespond(t, cur, updateSession(store, [step |-> WAITING_FOR_CLASS]), "unexpected")

\* grading stops being requested once the session holds MaxResults results
MayGrade(s) ==
    s.step = WAITING_FOR_STUDENT_ANSWER
        => Len(ResultsOrEmpty(s.previousGradingResults)) < MaxResults

\* processImageUpload up to the await of storageService.uploadFile
CbseImageUpload(t) ==
    /\ flow = "cbse" /\ Free(t)
    /\ LET s == cbseGetOrCreateSession(session)
       IN  /\ MayGrade(s)
           /\ session' = s
           /\ Goto(t, NewTurn("upload", "", StepOf(session)), "upload",
                   Keep(s, {"step"}), <<>>, "")
    /\ last' = NoTurn
    /\ UNCHANGED <<flow, others>>

\* uploadFile resolved: the switch on the step read before the upload
CbseUploadDone(t) ==
    /\ flow = "cbse" /\ turns[t].pc = "upload"
    /\ CbseImageSwitch(t, turns[t], "upload", turns[t].snap.step, session)
    /\ UNCHANGED <<flow, others, last>>

\* uploadFile rejected: processImageUpload throws to the controller
CbseUploadFails(t) ==
    /\ flow = "cbse" /\ turns[t].pc = "upload"
    /\ EndTurn(t, "throw")
    /\ UNCHANGED <<flow, others, session>>

\* processImageFromUrl up to the first await
CbseImageFromUrl(t) ==
    /\ flow = "cbse" /\ Free(t)
    /\ LET s == cbseGetOrCreateSession(session)
       IN  /\ MayGrade(s)
           /\ CbseImageSwitch(t, NewTurn("url", "", StepOf(session)), "url", s.step, s)
    /\ last' = NoTurn
    /\ UNCHANGED <<flow, others>>

\* analyzeImage resolved with the text of the question paper
CbseQuestionPaperText(t, ocrText) ==
    /\ flow = "cbse" /\ turns[t].pc = "qp_ocr"
    /\ session' = updateSession(session,
          [questionPaper |-> Some(ocrText), step |-> EXTRACTING_QUESTION_MARKS])
    /\ Goto(t, turns[t], "qp_struct", turns[t].snap, ocrText, "")
    /\ UNCHANGED <<flow, others, last>>

\* analyzeImage threw: the outer catch only answers
CbseQuestionPaperOcrFails(t) ==
    /\ flow = "cbse" /\ turns[t].pc = "qp_ocr"
    /\ RemoteRejects("analyzeImage")
    /\ CbseRespond(t, turns[t], session, "ocr_failed")
    /\ UNCHANGED <<flow, others, last>>

\* generateText resolved for the structure prompt
CbseStructureReply(t, reply) ==
    /\ flow = "cbse" /\ turns[t].pc = "qp_struct"
    /\ LET extracted == updateSession(session,
               [questionMarks |-> Some(PaperMarks[turns[t].data]),
                step |-> WAITING_FOR_MARKS_CONFIRMATION])
           structured == updateSession(session,
               [questionMarks |-> Some(reply.questions),
                step |-> WAITING_FOR_MARKS_CONFIRMATION])
       IN  IF ~reply.parses THEN CbseRespond(t, turns[t], extracted, "extracted")
           ELSE IF reply.questions # {} /\ ~reply.texts
           THEN CbseRespond(t, turns[t], extracted, "extracted")
           ELSE CbseRespond(t, turns[t], structured, "structured")
    /\ UNCHANGED <<flow, others, last>>

\* generateText threw for the structure prompt: the outer catch only answers
CbseStructureFails(t) ==
    /\ flow = "cbse" /\ turns[t].pc = "qp_struct"
    /\ RemoteRejects("generateText")
    /\ CbseRespond(t, turns[t], session, "structure_failed")
    /\ UNCHANGED <<flow, others, last>>

\* analyzeImage resolved with the text of the student answer
CbseStudentAnswerText(t, textLength) ==
    /\ flow = "cbse" /\ turns[t].pc = "sa_ocr"
    /\ session' = updateSession(session,
          [studentAnswer |-> Some(textLength), step |-> GRADING_IN_PROGRESS])
    /\ Goto(t, turns[t], "sa_grade", turns[t].snap, <<textLength>>, "")
    /\ UNCHANGED <<flow, others, last>>

\* analyzeImage threw for the student answer: the outer catch
CbseStudentAnswerOcrFails(t) ==
    /\ flow = "cbse" /\ turns[t].pc = "sa_ocr"
    /\ RemoteRejects("analyzeImage")
    /\ CbseRespond(t, turns[t],
          updateSession(session, [step |-> WAITING_FOR_STUDENT_ANSWER]), "ocr_failed")
    /\ UNCHANGED <<flow, others, last>>

\* the result object processStudentAnswerUrl builds from a parsed reply
CbseRemoteResult(reply, totalMarks) ==
    GradingResult(reply.score, Some(totalMarks),
                  Some(Quot(100 * reply.score, totalMarks)), reply.is_relevant, "remote")

\* generateText resolved for the grading prompt
CbseGradeReply(t, reply) ==
    /\ flow = "cbse" /\ turns[t].pc = "sa_grade"
    /\ LET snap == turns[t].snap
           totalMarks == MapSum(Val(snap.questionMarks))
           previousResults == ResultsOrEmpty(snap.previousGradingResults)
           fallbackResult == getFallbackCbseGrading(turns[t].data[1], totalMarks)
           Done(result) == updateSession(session,
               [step |-> COMPLETE,
                previousGradingResults |-> Some(Append(previousResults, result))])
       IN  IF ~reply.parses
           THEN CbseRespond(t, turns[t], Done(fallbackResult), "remote_unparseable")
           ELSE IF FormatThrows(reply)
           THEN CbseRespond(t, turns[t], Done(fallbackResult), "format_failed")
           ELSE CbseRespond(t, turns[t], Done(CbseRemoteResult(reply, totalMarks)), "remote_ok")
    /\ UNCHANGED <<flow, others, last>>

\* an outer catch that writes no step, as the catch blocks of the subclass
\* revision do: the session stays where the turn had put it
CbseGradeFailsNoWrite(t) ==
    /\ flow = "cbse" /\ turns[t].pc = "sa_grade"
    /\ RemoteRejects("generateText")
    /\ CbseRespond(t, turns[t], session, "remote_failed")
    /\ UNCHANGED <<flow, others, last>>

\* generateText threw for the grading prompt: the outer catch
CbseGradeFails(t) ==
    /\ flow = "cbse" /\ turns[t].pc = "sa_grade"
    /\ RemoteRejects("generateText")
    /\ CbseRespond(t, turns[t],
          updateSession(session, [step |-> WAITING_FOR_STUDENT_ANSWER]), "remote_failed")
    /\ UNCHANGED <<flow, others, last>>

-----------------------------------------------------------------------------
(* The simple engine: message parsing (services/chatService.ts) *)

GREETING == "greeting"
HELP_REQUEST == "help_request"
NEW_SESSION == "new_session"
GRADING_INSTRUCTION == "grading_instruction"
FOLLOW_UP_QUESTION == "follow_up_question"
PROVIDE_QUESTION == "provide_question"
UNKNOWN == "unknown"

\* ChatService.detectUserIntent; step is session.step
detectUserIntent(message, step) ==
    With(Trim(ToLower(message)), LAMBDA lowerMsg :
        IF \/ /\ Len(lowerMsg) < 20
              /\ \E w \in {"hi", "hello", "hey", "greetings", "howdy"} : StartsAt(lowerMsg, 1, w)
           \/ lowerMsg = "start"
           \/ lowerMsg = "begin"
        THEN GREETING
        ELSE IF \/ Includes(lowerMsg, "help") \/ Includes(lowerMsg, "how do") \/ Includes(lowerMsg, "what can you")
                \/ Includes(lowerMsg, "instructions") \/ (Includes(lowerMsg, "how") /\ Includes(lowerMsg, "work"))
        THEN HELP_REQUEST
        ELSE IF \/ Includes(lowerMsg, "start over") \/ Includes(lowerMsg, "restart") \/ Includes(lowerMsg, "reset")
                \/ Includes(lowerMsg, "new session") \/ Includes(lowerMsg, "different question")
                \/ Includes(lowerMsg, "another student")
        THEN NEW_SESSION
        ELSE IF /\ step = WAITING_FOR_INSTRUCTION
                /\ \/ Includes(lowerMsg, "grade") \/ Includes(lowerMsg, "assess") \/ Includes(lowerMsg, "evaluate") \/ Includes(lowerMsg, "score")
                   \/ Includes(lowerMsg, "mark") \/ Includes(lowerMsg, "check") \/ Includes(lowerMsg, "review") \/ Includes(lowerMsg, "how did")
                   \/ Includes(lowerMsg, "feedback")
        THEN GRADING_INSTRUCTION
        ELSE IF /\ step = COMPLETE
                /\ \/ Includes(lowerMsg, "why") \/ Includes(lowerMsg, "how") \/ Includes(lowerMsg, "explain") \/ Includes(lowerMsg, "clarify")
                   \/ Includes(lowerMsg, "?")
        THEN FOLLOW_UP_QUESTION
        ELSE IF /\ step \in {INITIAL, WAITING_FOR_QUESTION, COMPLETE}
                /\ Len(message) > 20
                /\ ~StartsAt(lowerMsg, 1, "grade")
                /\ ~StartsAt(lowerMsg, 1, "assess")
        THEN PROVIDE_QUESTION
        ELSE IF step = WAITING_FOR_INSTRUCTION THEN GRADING_INSTRUCTION
        ELSE IF step = WAITING_FOR_QUESTION THEN PROVIDE_QUESTION
        ELSE IF step = COMPLETE THEN FOLLOW_UP_QUESTION
        ELSE UNKNOWN)

\* (\d+)\s*(?:word)s? with the digits starting at i; tail = TRUE adds the
\* final \b.  The digits, or ""
CountedWordAt(s, i, words, tail) ==
    With(SkipWhile(s, i, Digits), LAMBDA e1 :
    With(SkipWhile(s, e1, {" "}), LAMBDA e2 :
        IF /\ e1 > i
           /\ \E w \in words :
                  /\ StartsAt(s, e2, w)
                  /\ tail => \/ WordBoundary(s, e2 + Len(w))
                             \/ /\ StartsAt(s, e2 + Len(w), "s")
                                /\ WordBoundary(s, e2 + Len(w) + 1)
        THEN SubSeq(s, i, e1 - 1) ELSE ""))

\* the first capture group of the leftmost match of
\* /\b(\d+)\s*(?:mark|point|score)s?\b/i (head = tail = TRUE) or of
\* /(\d+)\s*(?:mark|point|score|grade)s?/i (head = tail = FALSE), or ""
CountedWord(text, words, head, tail) ==
    With(ToLower(text), LAMBDA s :
    With({i \in 1..Len(s) :
              /\ head => WordBoundary(s, i)
              /\ CountedWordAt(s, i, words, tail) # ""}, LAMBDA hits :
        IF hits = {} THEN "" ELSE CountedWordAt(s, Least(hits), words, tail)))

\* suggestDefaultMarks: None for null
suggestDefaultMarks(question) ==
    With(CountedWord(question, {"mark", "point", "score"}, TRUE, TRUE), LAMBDA marksMatch :
        IF marksMatch = "" THEN None ELSE Some(ParseInt(marksMatch)))

\* the contextualNotes handleQuestionInput stores
ContextualNotesOf(question) ==
    With(suggestDefaultMarks(question), LAMBDA suggestedMarks :
        IF suggestedMarks # None /\ Val(suggestedMarks) # 0
        THEN "Suggested marks: " \o ToString(Val(suggestedMarks))
        ELSE "Marks not specified")

\* extractMarksFromInstruction: None for null
extractMarksFromInstruction(instruction, contextualNotes) ==
    With(CountedWord(instruction, {"mark", "point", "score", "grade"}, FALSE, FALSE),
         LAMBDA marksMatch :
    With(IF contextualNotes # Null /\ StartsAt(contextualNotes, 1, "Suggested marks: ")
         THEN SubSeq(contextualNotes, 18, SkipWhile(contextualNotes, 18, Digits) - 1)
         ELSE "", LAMBDA noted :
        IF marksMatch # "" THEN Some(ParseInt(marksMatch))
        ELSE IF noted # "" THEN Some(ParseInt(noted))
        ELSE None))

-----------------------------------------------------------------------------
(* Grading by openaiService.gradeAnswer (services/openaiService.ts) *)

\* the HTTP request failed, timed out or was not sent for want of an API key
RequestFailed == [parses |-> FALSE, failed |-> TRUE]

\* validateAndEnhanceResult: the fields of the reply it does not touch stay
validateAndEnhanceResult(reply, maxMarks) ==
    GradingResult(Max(0, Min(reply.score, maxMarks)), reply.outOf, reply.percentage,
                  reply.is_relevant, "remote")

\* getFallbackGrading; the student answer is given by its length
getFallbackGrading(textLength, maxMarks) ==
    LET byLength == Min(RoundOfProduct(textLength, maxMarks), maxMarks)
        raised == IF textLength > 200 /\ 10 * byLength < 4 * maxMarks
                  THEN Round(4 * maxMarks, 10) ELSE byLength
        score == IF 10 * raised > 8 * maxMarks THEN Round(8 * maxMarks, 10) ELSE raised
    IN  GradingResult(score, Some(maxMarks), Some(Quot(100 * score, maxMarks)),
                      "undefined", "fallback")

\* gradeAnswer: what it resolves with; it never rejects
gradeAnswer(reply, textLength, maxMarks) ==
    IF reply.parses THEN validateAndEnhanceResult(reply, maxMarks)
    ELSE getFallbackGrading(textLength, maxMarks)

-----------------------------------------------------------------------------
(* The simple engine: state handling (services/chatService.ts) *)

\* the flows ChatService serves: requested directly, or through the request
\* layer (controllers/chatController.ts)
SimpleFlows == {"simple", "request"}

SimpleMessages ==
    {"hi", "reset", "ok",
     "Explain the causes of World War One for 20 marks",
     "Explain photosynthesis in plants",
     "grade out of 10 marks", "grade out of 0 marks", "grade it please",
     "why this score?"}

GenericQuestion == "Assessment of student work"

\* ChatService.getOrCreateSession: getSession never returns a falsy value, so
\* only lastInteraction is written
simpleGetOrCreateSession(s) == getSession(s)

\* /\b(w1|w2|...)\b/.test(s) for a list of literal alternatives
HasWord(s, ws) ==
    \E w \in ws : \E i \in 1..(Len(s) - Len(w) + 1) :
        /\ StartsAt(s, i, w) /\ WordBoundary(s, i) /\ WordBoundary(s, i + Len(w))

MathWords ==
    {"math", "algebra", "geometry", "calculus", "equation", "formula", "solve",
     "graph", "function", "polynomial", "triangle", "circle", "angle", "theorem",
     "proof"}
\* the characters of /[+\-*/=^...]/ : the radical, integral, sum and pi signs
\* of the class lie outside the characters a message of the model is made of
MathSigns == {"+", "-", "*", "/", "=", "^"}
ScienceWords ==
    {"science", "biology", "chemistry", "physics", "atom", "molecule", "cell",
     "organism", "experiment", "lab", "hypothesis", "theory", "element",
     "compound", "reaction", "force", "energy", "ecosystem"}
EnglishWords ==
    {"english", "essay", "writing", "paragraph", "grammar", "literature", "novel",
     "poem", "poetry", "author", "character", "theme", "plot", "narrative",
     "syntax", "metaphor", "simile", "analyze", "text"}
HistoryWords ==
    {"history", "social studies", "civilization", "government", "war",
     "revolution", "president", "country", "nation", "empire", "colony",
     "politics", "society", "culture", "century", "decade", "era", "period"}
ComputerWords ==
    {"computer science", "programming", "code", "algorithm", "function",
     "variable", "class", "object", "data structure", "loop", "conditional",
     "if statement", "database", "web", "software", "hardware", "binary"}

\* detectSubjectArea; the test /\d+\s*[+\-*/=]\s*\d+/ matches only where the
\* test for a single sign already does
detectSubjectArea(question) ==
    With(ToLower(question), LAMBDA lowerQuestion :
        IF \/ HasWord(lowerQuestion, MathWords)
           \/ \E i \in 1..Len(question) : CharAt(question, i) \in MathSigns
        THEN "mathematics"
        ELSE IF HasWord(lowerQuestion, ScienceWords) THEN "science"
        ELSE IF HasWord(lowerQuestion, EnglishWords) THEN "english_language_arts"
        ELSE IF HasWord(lowerQuestion, HistoryWords) THEN "history"
        ELSE IF HasWord(lowerQuestion, ComputerWords) THEN "computer_science"
        ELSE "general")

\* detectSubjectArea of the messages of the model, computed once
DetectedSubjects == [m \in SimpleMessages |-> detectSubjectArea(m)]
SubjectAreaOf(question) ==
    IF question \in DOMAIN DetectedSubjects THEN DetectedSubjects[question]
    ELSE detectSubjectArea(question)

\* handleQuestionInput: the stored session afterwards
handleQuestionInput(store, question) ==
    IF Len(Trim(question)) < 5 THEN store
    ELSE updateSession(store,
           [question |-> question, subjectArea |-> SubjectAreaOf(question),
            step |-> WAITING_FOR_ANSWER,
            contextualNotes |-> ContextualNotesOf(question)])

\* handleInitialOrCompletedState: the stored session afterwards
handleInitialOrCompletedState(store, message, intent) ==
    IF intent \in {GREETING, HELP_REQUEST} THEN store
    ELSE IF intent = NEW_SESSION THEN resetSession
    ELSE IF intent = PROVIDE_QUESTION THEN handleQuestionInput(store, message)
    ELSE IF intent = FOLLOW_UP_QUESTION THEN updateSession(store, [step |-> FOLLOW_UP])
    ELSE handleQuestionInput(updateSession(store, [step |-> WAITING_FOR_QUESTION]), message)

\* handleTextDuringAnswerWait: the stored session afterwards
handleTextDuringAnswerWait(store, intent) ==
    IF intent = NEW_SESSION THEN resetSession ELSE store

\* the synthetic result processImageUpload and processImageFromUrl push when
\* an image arrives after a grading
PreviousSessionResult(marks) ==
    IF marks = None \/ marks = Some(0)
    THEN GradingResult(0, Some(10), Some(Quot(0, 1)), "undefined", "previous")
    ELSE GradingResult(Val(marks), Some(Val(marks)), Some(Quot(100 * Val(marks), 10)),
                       "undefined", "previous")

\* the start of processImageUpload and processImageFromUrl: an image in
\* COMPLETE or FOLLOW_UP begins a new assessment and keeps the results
ImageAfterGrading(s) ==
    LET previousResults == ResultsOrEmpty(s.previousGradingResults)
        pushed == IF s.question # Null
                  THEN Append(previousResults, PreviousSessionResult(s.marks))
                  ELSE previousResults
    IN  IF s.step \in {COMPLETE, FOLLOW_UP}
        THEN updateSession(s,
               [question |-> GenericQuestion, studentAnswer |-> None, marks |-> None,
                step |-> WAITING_FOR_ANSWER, previousGradingResults |-> Some(pushed)])
        ELSE s

\* the values contextualNotes takes
SimpleNotes == {Null} \cup {ContextualNotesOf(q) : q \in SimpleMessages}

\* what the handlers of the simple engine derive from the text of a message
SimpleParse(message) ==
    [intent |-> [st \in ConversationStep |-> detectUserIntent(message, st)],
     marks |-> [notes \in SimpleNotes |-> extractMarksFromInstruction(message, notes)]]

SimpleParsed == [m \in SimpleMessages |-> SimpleParse(m)]

\* a turn that runs without an await: it returns in the step that began it
Instant(op, message, from, note) ==
    /\ last' = [op |-> op, msg |-> message, from |-> from, note |-> note, end |-> "reply"]
    /\ UNCHANGED turns

\* the branches of ChatService.processTextMessage that do not await
SimpleSwitch(s, message, intent) ==
    IF s.step \in {INITIAL, COMPLETE, FOLLOW_UP}
    THEN handleInitialOrCompletedState(s, message, intent)
    ELSE IF s.step = WAITING_FOR_QUESTION THEN handleQuestionInput(s, message)
    ELSE IF s.step = WAITING_FOR_ANSWER THEN handleTextDuringAnswerWait(s, intent)
    ELSE IF s.step = GRADING_IN_PROGRESS THEN s
    ELSE updateSession(s, [step |-> INITIAL])

\* processTextMessage in a step other than WAITING_FOR_INSTRUCTION
SimpleTextMessage(message) ==
    /\ flow \in SimpleFlows
    /\ LET s == simpleGetOrCreateSession(session)
       IN  /\ s.step # WAITING_FOR_INSTRUCTION
           /\ session' = SimpleSwitch(s, message, SimpleParsed[message].intent[s.step])
    /\ Instant("text", message, StepOf(session), "")
    /\ UNCHANGED <<flow, others>>

\* handleInstructionInput up to the await of gradeAnswer, or to its return
\* when the answer or the marks are missing (cur is the turn when it grades)
InstructionInput(t, cur, s, marks) ==
    LET asked == IF s.question = Null
                 THEN updateSession(s, [question |-> GenericQuestion]) ELSE s
    IN  IF s.studentAnswer \in {None, Some(0)}
        THEN session' = s /\ Instant(cur.op, cur.msg, cur.from, "no_answer")
        ELSE IF marks = None
        THEN /\ session' = updateSession(asked, [step |-> WAITING_FOR_INSTRUCTION])
             /\ Instant(cur.op, cur.msg, cur.from, "no_marks")
        ELSE /\ Len(ResultsOrEmpty(s.previousGradingResults)) < MaxSimpleResults
             /\ session' = updateSession(asked, [marks |-> marks, step |-> GRADING_IN_PROGRESS])
             /\ Goto(t, cur, "grade", Keep(s, {"studentAnswer", "previousGradingResults"}),
                     marks, "")
             /\ last' = NoTurn

\* processTextMessage in WAITING_FOR_INSTRUCTION
SimpleInstruction(t, message) ==
    /\ flow \in SimpleFlows /\ Free(t)
    /\ LET s == simpleGetOrCreateSession(session)
       IN  /\ s.step = WAITING_FOR_INSTRUCTION
           /\ InstructionInput(t, NewTurn("text", message, StepOf(session)), s,
                               SimpleParsed[message].marks[s.contextualNotes])
    /\ UNCHANGED <<flow, others>>

\* gradeAnswer resolved: the rest of handleInstructionInput
InstructionGraded(t, reply) ==
    LET marks == Val(turns[t].data)
        graded == gradeAnswer(reply, Val(turns[t].snap.studentAnswer), marks)
        gradingResult == [graded EXCEPT !.outOf = Some(marks),
                                        !.percentage = Some(Quot(100 * graded.score, marks))]
        previousResults == ResultsOrEmpty(turns[t].snap.previousGradingResults)
    IN  /\ session' = updateSession(session,
              [step |-> COMPLETE,
               previousGradingResults |-> Some(Append(previousResults, gradingResult))])
        /\ turns' = [turns EXCEPT ![t] = Idle]
        /\ last' = [op |-> turns[t].op, msg |-> turns[t].msg, from |-> turns[t].from,
                    note |-> IF reply.parses THEN "remote_ok"
                             ELSE IF reply = RequestFailed THEN "remote_failed"
                             ELSE "remote_unparseable",
                    end |-> "reply"]

\* the remote model answered the request of gradeAnswer
SimpleGradeReply(t, reply) ==
    /\ flow \in SimpleFlows /\ turns[t].pc = "grade"
    /\ InstructionGraded(t, reply)
    /\ UNCHANGED <<flow, others>>

\* the request of gradeAnswer failed
SimpleGradeFails(t) ==
    /\ flow \in SimpleFlows /\ turns[t].pc = "grade"
    /\ InstructionGraded(t, RequestFailed)
    /\ UNCHANGED <<flow, others>>

\* images are no longer sent after a grading once the session holds
\* MaxSimpleResults results
MayPush(s) ==
    (s.step \in {COMPLETE, FOLLOW_UP} /\ s.question # Null)
        => Len(ResultsOrEmpty(s.previousGradingResults)) < MaxSimpleResults

\* the user id a turn of the simple engine was called with: the id of the
\* user, or the id the request layer generated for the request (the note of
\* the turn)
TurnUser(t) == IF turns[t].note = "" THEN ClientId ELSE turns[t].note

\* sessionStore.sessions.get(userId)
Entry(userId) == IF userId = ClientId THEN session ELSE others[userId]

\* sessionStore.sessions.set(userId, s)
SetEntry(userId, s) ==
    IF userId = ClientId THEN session' = s /\ UNCHANGED others
    ELSE others' = [others EXCEPT ![userId] = s] /\ UNCHANGED session

\* the session processImageUpload has stored when it awaits uploadFile
ImageUploadBegins(s) ==
    LET s1 == ImageAfterGrading(s)
    IN  IF s.step = INITIAL
        THEN updateSession(s1, [question |-> GenericQuestion, step |-> WAITING_FOR_ANSWER])
        ELSE s1

\* ChatService.processImageUpload up to the await of uploadFile
SimpleImageUpload(t) ==
    /\ flow \in SimpleFlows /\ Free(t)
    /\ LET s == simpleGetOrCreateSession(session)
       IN  /\ MayPush(s)
           /\ session' = ImageUploadBegins(s)
    /\ Goto(t, NewTurn("upload", "", StepOf(session)), "upload", Keep(NewSession, {}), <<>>, "")
    /\ last' = NoTurn
    /\ UNCHANGED <<flow, others>>

\* uploadFile resolved
SimpleUploadDone(t) ==
    /\ flow \in SimpleFlows /\ turns[t].pc = "upload"
    /\ SetEntry(TurnUser(t),
                updateSession(Entry(TurnUser(t)), [step |-> GRADING_IN_PROGRESS]))
    /\ Goto(t, turns[t], "ocr", turns[t].snap, <<>>, turns[t].note)
    /\ UNCHANGED <<flow, last>>

\* ChatService.processImageFromUrl up to the await of the OCR call
SimpleImageFromUrl(t, imageUrl) ==
    /\ flow \in SimpleFlows /\ Free(t)
    /\ LET s == simpleGetOrCreateSession(session)
           s1 == ImageAfterGrading(s)
           s2 == IF s.question = Null
                 THEN updateSession(s1, [question |-> GenericQuestion]) ELSE s1
       IN  /\ MayPush(s)
           /\ session' = updateSession(s2, [step |-> GRADING_IN_PROGRESS])
    /\ Goto(t, NewTurn("url", imageUrl, StepOf(session)), "ocr", Keep(NewSession, {}), <<>>, "")
    /\ last' = NoTurn
    /\ UNCHANGED <<flow, others>>

\* extractTextFromImageUrl resolved with a text of the given length
SimpleOcrText(t, textLength) ==
    /\ flow \in SimpleFlows /\ turns[t].pc = "ocr"
    /\ LET updatedSession == updateSession(Entry(TurnUser(t)),
               [studentAnswer |-> Some(textLength), step |-> WAITING_FOR_INSTRUCTION])
       IN  SetEntry(TurnUser(t),
                    IF turns[t].op = "url" /\ updatedSession.question = Null
                    THEN updateSession(updatedSession, [question |-> GenericQuestion])
                    ELSE updatedSession)
    /\ EndTurn(t, "reply")
    /\ UNCHANGED flow

\* uploadFile rejected: the catch block of processImageUpload
SimpleImageFails(t) ==
    /\ flow \in SimpleFlows
    /\ turns[t].pc = "upload"
    /\ SetEntry(TurnUser(t),
                updateSession(Entry(TurnUser(t)), [step |-> WAITING_FOR_ANSWER]))
    /\ turns' = [turns EXCEPT ![t] = Idle]
    /\ last' = [op |-> turns[t].op, msg |-> turns[t].msg, from |-> turns[t].from,
                note |-> "image_failed", end |-> "reply"]
    /\ UNCHANGED flow

\* the steps of the simple engine for requests with the given inputs; a
\* request is served whenever it arrives, also while a turn is in flight
SimpleNextOf(messages, urls, lengths, replies) ==
    \/ \E m \in messages : SimpleTextMessage(m)
    \/ \E t \in Slots, m \in messages : SimpleInstruction(t, m)
    \/ \E t \in Slots, r \in replies : SimpleGradeReply(t, r)
    \/ \E t \in Slots : SimpleGradeFails(t)
    \/ \E t \in Slots : SimpleImageUpload(t)
    \/ \E t \in Slots : SimpleUploadDone(t)
    \/ \E t \in Slots, u \in urls : SimpleImageFromUrl(t, u)
    \/ \E t \in Slots, n \in lengths : SimpleOcrText(t, n)
    \/ \E t \in Slots : SimpleImageFails(t)

\* the requests of Spec to the simple engine and the replies they get: a
\* part of the inputs above
WorldWarQuestion == "Explain the causes of World War One for 20 marks"

SimpleCoreMessages == {"reset", WorldWarQuestion, "why this score?"}

SimpleNext ==
    SimpleNextOf(SimpleCoreMessages, {"https://host/answer.jpg"}, {120},
                 {RelevantReply, IrrelevantReply})

-----------------------------------------------------------------------------
(* The subclass revision of the CBSE engine (unnamed/part_005):            *)
(* CbseChatService extends ChatService                                     *)

SET_CLASS == "set_class"
SET_SUBJECT == "set_subject"
CONFIRM_MARKS == "confirm_marks"
UPDATE_MARKS == "update_marks"

\* the fields getOrCreateSession writes when the session has no class level
LegacyFreshFields ==
    [f \in DOMAIN CbseFreshFields \ {"conversationHistory"} |-> CbseFreshFields[f]]

\* getOrCreateSession of the subclass: the stored session afterwards
legacyGetOrCreateSession(s) ==
    IF getSession(s).classLevel = Null
    THEN updateSession(getSession(s), LegacyFreshFields)
    ELSE getSession(s)

\* /^word\s+\d+$/.test(lowerMsg)
WordNumber(lowerMsg, word) ==
    With(SkipWhile(lowerMsg, Len(word) + 1, {" "}), LAMBDA b :
        /\ StartsAt(lowerMsg, 1, word) /\ b > Len(word) + 1 /\ b <= Len(lowerMsg)
        /\ SkipWhile(lowerMsg, b, Digits) = Len(lowerMsg) + 1)

\* detectUserIntent of the subclass; step is session.step
legacyDetectUserIntent(message, step) ==
    With(Trim(ToLower(message)), LAMBDA lowerMsg :
        IF \/ Includes(lowerMsg, "set class") \/ Includes(lowerMsg, "class")
           \/ WordNumber(lowerMsg, "class") \/ WordNumber(lowerMsg, "grade")
        THEN SET_CLASS
        ELSE IF \/ Includes(lowerMsg, "set subject") \/ Includes(lowerMsg, "subject")
                \/ lowerMsg \in {"economics", "math", "science"}
        THEN SET_SUBJECT
        ELSE IF /\ Includes(lowerMsg, "marks")
                /\ \/ Includes(lowerMsg, "correct") \/ Includes(lowerMsg, "right")
                   \/ Includes(lowerMsg, "yes") \/ Includes(lowerMsg, "no")
        THEN CONFIRM_MARKS
        ELSE IF \/ Includes(lowerMsg, "update marks") \/ Includes(lowerMsg, "change marks")
                \/ Includes(lowerMsg, "fix marks")
        THEN UPDATE_MARKS
        ELSE detectUserIntent(message, step))

\* the class level handleClassInput reads from the message, Null when none
legacyClassLevel(message) ==
    With(Trim(ToLower(message)), LAMBDA lowerMsg :
        IF Includes(lowerMsg, "6") THEN "class_6"
        ELSE IF Includes(lowerMsg, "7") THEN "class_7"
        ELSE IF Includes(lowerMsg, "8") THEN "class_8"
        ELSE IF Includes(lowerMsg, "9") THEN "class_9"
        ELSE IF Includes(lowerMsg, "10") THEN "class_10"
        ELSE IF Includes(lowerMsg, "11") THEN "class_11"
        ELSE IF Includes(lowerMsg, "12") THEN "class_12"
        ELSE Null)

\* the subject handleSubjectInput reads from the message: the chain of
\* extractSubjectArea with SubjectArea.GENERAL as its last branch
legacySubjectArea(message) ==
    IF extractSubjectArea(message) = Null THEN "general" ELSE extractSubjectArea(message)

\* message.match(updatePattern) of handleMarksUpdate
legacyUpdateMatch(message) ==
    UpdateMatchWith(message, {"should", "to", "is"}, {"be", "have"}, TRUE)

\* what the handlers of the subclass derive from the text of a message
LegacyParse(message) ==
    [intent |-> [st \in ConversationStep |-> legacyDetectUserIntent(message, st)],
     classLevel |-> legacyClassLevel(message),
     subjectArea |-> legacySubjectArea(message),
     yes |-> \E w \in {"yes", "correct", "right"} : Includes(Trim(ToLower(message)), w),
     no |-> \E w \in {"no", "incorrect", "wrong"} : Includes(Trim(ToLower(message)), w),
     match |-> legacyUpdateMatch(message)]

\* handleInitialGreeting: each of its three branches writes the same step
handleInitialGreeting(store) == updateSession(store, [step |-> WAITING_FOR_CLASS])

\* handleClassInput: the stored session afterwards; m is LegacyParse(message)
handleClassInput(store, m) ==
    IF m.classLevel = Null THEN store
    ELSE updateSession(store, [classLevel |-> m.classLevel, step |-> WAITING_FOR_SUBJECT])

handleSubjectInput(store, m) ==
    updateSession(store, [subjectArea |-> m.subjectArea, step |-> WAITING_FOR_QUESTION_PAPER])

handleMarksConfirmation(store, m) ==
    With(legacyGetOrCreateSession(store), LAMBDA s :
        IF m.yes
        THEN updateSession(s, [isMarkingConfirmed |-> TRUE, step |-> WAITING_FOR_STUDENT_ANSWER])
        ELSE IF m.no THEN updateSession(s, [step |-> WAITING_FOR_MARKS_UPDATE])
        ELSE s)

\* session.questionMarks || new Map()
MarksOrEmpty(o) == IF o = None THEN {} ELSE Val(o)

handleMarksUpdate(store, m) ==
    With(legacyGetOrCreateSession(store), LAMBDA s :
        IF m.match = <<>> THEN s
        ELSE updateSession(s,
               [questionMarks |-> Some(MapSet(MarksOrEmpty(s.questionMarks),
                                              ParseInt(m.match[1]), ParseInt(m.match[2]))),
                step |-> WAITING_FOR_MARKS_CONFIRMATION]))

\* the switch of processTextMessage on the step of the session object s; the
\* default branch is ChatService.processTextMessage
legacyStepSwitch(s, m, message, userIntent) ==
    IF s.step = INITIAL THEN handleInitialGreeting(s)
    ELSE IF s.step = WAITING_FOR_CLASS THEN handleClassInput(s, m)
    ELSE IF s.step = WAITING_FOR_SUBJECT THEN handleSubjectInput(s, m)
    ELSE IF s.step \in {WAITING_FOR_QUESTION_PAPER, WAITING_FOR_STUDENT_ANSWER} THEN s
    ELSE IF s.step = WAITING_FOR_MARKS_CONFIRMATION THEN handleMarksConfirmation(s, m)
    ELSE SimpleSwitch(s, message, userIntent)

\* processTextMessage of the subclass: the stored session afterwards
legacyProcessTextMessage(store, m, message) ==
    With(legacyGetOrCreateSession(store), LAMBDA s :
    With(m.intent[s.step], LAMBDA userIntent :
        IF userIntent = SET_CLASS THEN handleClassInput(s, m)
        ELSE IF userIntent = SET_SUBJECT THEN handleSubjectInput(s, m)
        ELSE IF userIntent = CONFIRM_MARKS THEN handleMarksConfirmation(s, m)
        ELSE IF userIntent = UPDATE_MARKS THEN handleMarksUpdate(s, m)
        ELSE legacyStepSwitch(s, m, message, userIntent)))

\* gradeStudentAnswer: the result of gradeAnswer for the sum of the marks;
\* only fields outside the model are added to it
gradeStudentAnswer(reply, textLength, questionMarks) ==
    gradeAnswer(reply, textLength, MapSum(questionMarks))

\* text messages of a teacher
LegacyMessages ==
    {"hi", "Class 10", "economics", "yes", "no", "incorrect",
     "Question 3 should be 5 marks", "update marks: question 1 to 4 marks", "reset"}

LegacyParsed == [m \in LegacyMessages |-> LegacyParse(m)]

\* what ocrService.extractTextFromImageUrl resolves with for the image of a
\* question paper: never a text of fewer than 5 characters
OcrPaperTexts ==
    {MarkedPaper,
     <<"This is a sample student answer for testing.">>}

LegacyPaperMarks == [x \in OcrPaperTexts |-> legacyExtractQuestionMarks(x)]

\* an answer turn reads the marks from the Map object of the session it read
\* when it began, up to the moment the text of the answer arrives; HoldsMarks
\* tells whether the store has kept that very object since then
HoldsMarks(cur) == cur.pc \in {"sa_upload", "sa_ocr"} /\ cur.data = <<TRUE>>

\* handleMarksUpdate calls questionMarks.set on the Map of the stored session
SetsMarksInPlace(store, m) ==
    With(legacyGetOrCreateSession(store), LAMBDA s :
        /\ m.intent[s.step] = UPDATE_MARKS /\ m.match # <<>> /\ s.questionMarks # None)

\* the turns after a write of the store: a questionMarks.set shows in every
\* turn that holds the Map; a turn stops holding it when the store gets
\* another Map or none
TurnsAfter(inPlace, after) ==
    [t \in Slots |->
        IF ~HoldsMarks(turns[t]) THEN turns[t]
        ELSE IF inPlace THEN [turns[t] EXCEPT !.snap.questionMarks = after.questionMarks]
        ELSE IF after.questionMarks # session.questionMarks
        THEN [turns[t] EXCEPT !.data = <<FALSE>>]
        ELSE turns[t]]

\* processTextMessage of the subclass: it returns without an await
LegacyTextMessage(message) ==
    /\ flow = "legacy"
    /\ session' = legacyProcessTextMessage(session, LegacyParsed[message], message)
    /\ turns' = TurnsAfter(SetsMarksInPlace(session, LegacyParsed[message]),
                           legacyProcessTextMessage(session, LegacyParsed[message], message))
    /\ last' = [op |-> "text", msg |-> message, from |-> StepOf(session), note |-> "",
                end |-> "reply"]
    /\ UNCHANGED <<flow, others>>

\* processStudentAnswerUpload up to the await of uploadFile, or to its
\* return when the paper or the confirmed marks are missing
LegacyStudentAnswerUpload(t, cur, s) ==
    IF s.questionPaper \in {None, Some(EmptyText)} \/ s.questionMarks = None
       \/ ~s.isMarkingConfirmed
    THEN session' = s /\ Instant(cur.op, cur.msg, cur.from, "not_ready")
    ELSE /\ session' = updateSession(s, [step |-> GRADING_IN_PROGRESS])
         /\ Goto(t, cur, "sa_upload",
                 Keep(s, {"questionMarks", "previousGradingResults"}), <<TRUE>>, "")
         /\ last' = NoTurn

\* the branches of processImageUpload and of processImageFromUrl that return
\* without an await
LegacyImageOutOfTurn(cur, s) ==
    IF cur.op = "upload" /\ s.step \in {COMPLETE, FOLLOW_UP}
    THEN /\ session' = updateSession(resetSession, [step |-> WAITING_FOR_CLASS])
         /\ Instant(cur.op, cur.msg, cur.from, "new_session")
    ELSE /\ session' = updateSession(s, [step |-> WAITING_FOR_CLASS])
         /\ Instant(cur.op, cur.msg, cur.from, "unexpected")

\* processImageUpload of the subclass up to its first await
LegacyImageUpload(t) ==
    /\ flow = "legacy" /\ Free(t)
    /\ MayGrade(legacyGetOrCreateSession(session))
    /\ LET s == legacyGetOrCreateSession(session)
           cur == NewTurn("upload", "", StepOf(session))
       IN  IF s.step = WAITING_FOR_QUESTION_PAPER
           THEN /\ session' = updateSession(s, [step |-> PROCESSING_QUESTION_PAPER])
                /\ Goto(t, cur, "qp_upload", Keep(s, {}), <<>>, "")
                /\ last' = NoTurn
           ELSE IF s.step = WAITING_FOR_STUDENT_ANSWER
           THEN LegacyStudentAnswerUpload(t, cur, s)
           ELSE LegacyImageOutOfTurn(cur, s)
    /\ UNCHANGED <<flow, others>>

\* uploadFile resolved: the turn awaits extractTextFromImageUrl
LegacyUploadDone(t) ==
    /\ flow = "legacy" /\ turns[t].pc \in {"qp_upload", "sa_upload"}
    /\ Goto(t, turns[t], IF turns[t].pc = "qp_upload" THEN "qp_ocr" ELSE "sa_ocr",
            turns[t].snap, turns[t].data, "")
    /\ UNCHANGED <<flow, others, session, last>>

\* uploadFile rejected: the catch blocks of processQuestionPaperUpload and of
\* processStudentAnswerUpload
LegacyUploadFails(t) ==
    /\ flow = "legacy" /\ turns[t].pc \in {"qp_upload", "sa_upload"}
    /\ session' = updateSession(session,
          [step |-> IF turns[t].pc = "qp_upload" THEN WAITING_FOR_QUESTION_PAPER
                    ELSE WAITING_FOR_STUDENT_ANSWER])
    /\ turns' = [turns EXCEPT ![t] = Idle]
    /\ last' = [op |-> turns[t].op, msg |-> turns[t].msg, from |-> turns[t].from,
                note |-> "upload_failed", end |-> "reply"]
    /\ UNCHANGED <<flow, others>>

\* processImageFromUrl of the subclass up to its first await
LegacyImageFromUrl(t, imageUrl) ==
    /\ flow = "legacy" /\ Free(t)
    /\ MayGrade(legacyGetOrCreateSession(session))
    /\ LET s == legacyGetOrCreateSession(session)
           cur == NewTurn("url", imageUrl, StepOf(session))
       IN  IF s.step = WAITING_FOR_QUESTION_PAPER
           THEN /\ session' = updateSession(s, [step |-> PROCESSING_QUESTION_PAPER])
                /\ Goto(t, cur, "qp_ocr", Keep(s, {}), <<>>, "")
                /\ last' = NoTurn
           ELSE IF s.step = WAITING_FOR_STUDENT_ANSWER
           THEN /\ session' = updateSession(s, [step |-> GRADING_IN_PROGRESS])
                /\ Goto(t, cur, "sa_ocr",
                        Keep(s, {"questionMarks", "previousGradingResults"}),
                        <<s.questionMarks # None>>, "")
                /\ last' = NoTurn
           ELSE LegacyImageOutOfTurn(cur, s)
    /\ UNCHANGED <<flow, others>>

\* extractTextFromImageUrl resolved with the text of the question paper: the
\* text, then the extracted marks (a new Map) are written, and the turn
\* returns
LegacyQuestionPaperText(t, ocrText) ==
    /\ flow = "legacy" /\ turns[t].pc = "qp_ocr"
    /\ session' = updateSession(
          updateSession(session, [questionPaper |-> Some(ocrText),
                                  step |-> EXTRACTING_QUESTION_MARKS]),
          [questionMarks |-> Some(LegacyPaperMarks[ocrText]),
           step |-> WAITING_FOR_MARKS_CONFIRMATION])
    /\ turns' = [u \in Slots |->
                    IF u = t THEN Idle
                    ELSE IF HoldsMarks(turns[u]) THEN [turns[u] EXCEPT !.data = <<FALSE>>]
                    ELSE turns[u]]
    /\ last' = [op |-> turns[t].op, msg |-> turns[t].msg, from |-> turns[t].from,
                note |-> turns[t].note, end |-> "reply"]
    /\ UNCHANGED <<flow, others>>

\* extractTextFromImageUrl resolved with the text of the student answer: the
\* turn sums the marks of its Map and reads the Map no more
LegacyStudentAnswerText(t, textLength) ==
    /\ flow = "legacy" /\ turns[t].pc = "sa_ocr"
    /\ session' = updateSession(session,
          [studentAnswer |-> Some(textLength), step |-> GRADING_IN_PROGRESS])
    /\ Goto(t, turns[t], "sa_grade", turns[t].snap, <<FALSE, textLength>>, "")
    /\ UNCHANGED <<flow, others, last>>

\* gradeStudentAnswer resolved: the result, graded against the marks the
\* Map held when the text of the answer arrived, is appended to the results
\* the turn read when it began
LegacyGraded(t, reply) ==
    /\ session' = updateSession(session,
          [step |-> COMPLETE,
           previousGradingResults |->
               Some(Append(ResultsOrEmpty(turns[t].snap.previousGradingResults),
                           gradeStudentAnswer(reply, turns[t].data[2],
                                              MarksOrEmpty(turns[t].snap.questionMarks))))])
    /\ turns' = [turns EXCEPT ![t] = Idle]
    /\ last' = [op |-> turns[t].op, msg |-> turns[t].msg, from |-> turns[t].from,
                note |-> IF reply.parses THEN "remote_ok"
                         ELSE IF reply = RequestFailed THEN "remote_failed"
                         ELSE "remote_unparseable",
                end |-> "reply"]

\* the remote model answered the request of gradeAnswer
LegacyGradeReply(t, reply) ==
    /\ flow = "legacy" /\ turns[t].pc = "sa_grade"
    /\ LegacyGraded(t, reply)
    /\ UNCHANGED <<flow, others>>

\* the request of gradeAnswer failed
LegacyGradeFails(t) ==
    /\ flow = "legacy" /\ turns[t].pc = "sa_grade"
    /\ LegacyGraded(t, RequestFailed)
    /\ UNCHANGED <<flow, others>>

\* the steps of the subclass engine for requests with the given inputs; a
\* request is served whenever it arrives, also while a turn is in flight
LegacyNextOf(messages, urls, papers, lengths, replies) ==
    \/ \E m \in messages : LegacyTextMessage(m)
    \/ \E t \in Slots : LegacyImageUpload(t)
    \/ \E t \in Slots : LegacyUploadDone(t)
    \/ \E t \in Slots : LegacyUploadFails(t)
    \/ \E t \in Slots, u \in urls : LegacyImageFromUrl(t, u)
    \/ \E t \in Slots, x \in papers : LegacyQuestionPaperText(t, x)
    \/ \E t \in Slots, n \in lengths : LegacyStudentAnswerText(t, n)
    \/ \E t \in Slots, r \in replies : LegacyGradeReply(t, r)
    \/ \E t \in Slots : LegacyGradeFails(t)

\* the requests of Spec to the subclass engine and the replies they get
MarksUpdate == "update marks: question 1 to 4 marks"

LegacyCoreMessages == {"Class 10", "economics", "yes", MarksUpdate}

LegacyNext ==
    LegacyNextOf(LegacyCoreMessages, ImageUrls, {MarkedPaper}, {450}, {ListlessReply})

-----------------------------------------------------------------------------
(* The system *)

Init ==
    /\ flow \in {"cbse", "simple", "legacy"}
    /\ session = NoSession /\ others = NoOthers
    /\ turns = [t \in Slots |-> Idle]
    /\ last = NoTurn

\* the steps of the CBSE engine for requests with the given inputs; a
\* request is served whenever it arrives, also while a turn is in flight
CbseNextOf(messages, papers, structures, lengths, replies) ==
    \/ \E t \in Slots, m \in messages : CbseTextMessage(t, m)
    \/ \E t \in Slots : CbseConversationReply(t)
    \/ \E t \in Slots : CbseConversationFails(t)
    \/ \E t \in Slots : CbseImageUpload(t)
    \/ \E t \in Slots : CbseUploadDone(t)
    \/ \E t \in Slots : CbseUploadFails(t)
    \/ \E t \in Slots : CbseImageFromUrl(t)
    \/ \E t \in Slots, x \in papers : CbseQuestionPaperText(t, x)
    \/ \E t \in Slots : CbseQuestionPaperOcrFails(t)
    \/ \E t \in Slots, r \in structures : CbseStructureReply(t, r)
    \/ \E t \in Slots : CbseStructureFails(t)
    \/ \E t \in Slots, n \in lengths : CbseStudentAnswerText(t, n)
    \/ \E t \in Slots : CbseStudentAnswerOcrFails(t)
    \/ \E t \in Slots, r \in replies : CbseGradeReply(t, r)
    \/ \E t \in Slots : CbseGradeFails(t)

\* the requests of Spec to the CBSE engine and the replies they get
CbseCoreMessages == {"Class 10 math", "yes", "reset"}

CbseNext ==
    CbseNextOf(CbseCoreMessages, {MarkedPaper}, {TwoQuestions, Unparseable}, {450},
               {RelevantReply, Unparseable})

Next == CbseNext \/ SimpleNext \/ LegacyNext

Spec == Init /\ [][Next]_vars


-----------------------------------------------------------------------------
(* What a state shows of the turns that ran *)

\* the grading results the stored session holds
Results(s) == IF s = NoSession THEN <<>> ELSE ResultsOrEmpty(s.previousGradingResults)

\* the result appended last
LastResult == Results(session)[Len(Results(session))]

\* the segment that ran last stored the result of a grading: in the CBSE
\* engine the turn goes on to its conversational reply, in the other engines
\* it returns
JustGraded ==
    IF flow = "cbse"
    THEN \E t \in Slots : /\ turns[t].pc = "conv"
                          /\ turns[t].note \in {"remote_ok", "remote_unparseable", "format_failed"}
    ELSE AllIdle /\ last.note \in {"remote_ok", "remote_unparseable", "remote_failed"}

\* the maximum marks of the grading that was stored last: the marks of the
\* instruction in the simple engine, the sum of the marks map otherwise
MarksUsed ==
    IF flow = "simple"
    THEN (IF session.marks = None THEN 0 ELSE Val(session.marks))
    ELSE MapSum(MarksOrEmpty(session.questionMarks))

\* the phrases of a reset intent
ResetPhrases == {"start over", "restart", "reset", "new session"}

\* the messages of the teachers that contain one
ResetMessages ==
    {m \in CbseMessages \cup SimpleMessages \cup LegacyMessages :
         \E p \in ResetPhrases : Includes(ToLower(m), p)}

\* the stored session holds nothing of an assessment
IsReset(s) ==
    /\ s.question = Null /\ s.studentAnswer = None /\ s.marks = None
    /\ s.classLevel = Null /\ s.subjectArea = Null
    /\ s.questionPaper = None /\ s.questionMarks = None /\ ~s.isMarkingConfirmed

\* this step handles the text message in the step from: the CBSE engine goes
\* on to its conversational reply, the other engines return
HandlesText(message, from) ==
    \/ /\ flow = "cbse"
       /\ \E t \in Slots : /\ turns[t].pc = "idle" /\ turns'[t].pc = "conv"
                           /\ turns'[t].op = "text" /\ turns'[t].msg = message
                           /\ turns'[t].from = from
    \/ /\ flow # "cbse" /\ \A t \in Slots : turns'[t].pc = turns[t].pc
       /\ last'.op = "text" /\ last'.msg = message /\ last'.from = from
       /\ last'.end = "reply"

-----------------------------------------------------------------------------
(* The CBSE engine with question papers that have marks and papers that    *)
(* have no text, graded by replies that parse                               *)

ConcMessages == {"Class 10 math", "yes"}

ConcStructureReplies == {Unparseable}

ConcGradeReplies == {RelevantReply}

ConcInit ==
    /\ flow = "cbse"
    /\ session = NoSession /\ others = NoOthers
    /\ turns = [t \in Slots |-> Idle]
    /\ last = NoTurn

ConcNext ==
    CbseNextOf(ConcMessages, PaperTexts, ConcStructureReplies, {450}, ConcGradeReplies)

SpecConc == ConcInit /\ [][ConcNext]_vars

\* the CBSE engine when the teacher sends a request only after the turn
\* before it has returned: sequential turns
SequentialNext ==
    \/ \E m \in CbseMessages : AllIdle /\ CbseTextMessage(1, m)
    \/ \E t \in Slots : CbseConversationReply(t)
    \/ \E t \in Slots : CbseConversationFails(t)
    \/ AllIdle /\ CbseImageUpload(1)
    \/ \E t \in Slots : CbseUploadDone(t)
    \/ \E t \in Slots : CbseUploadFails(t)
    \/ AllIdle /\ CbseImageFromUrl(1)
    \/ \E t \in Slots, x \in PaperTexts : CbseQuestionPaperText(t, x)
    \/ \E t \in Slots : CbseQuestionPaperOcrFails(t)
    \/ \E t \in Slots, r \in StructureReplies : CbseStructureReply(t, r)
    \/ \E t \in Slots : CbseStructureFails(t)
    \/ \E t \in Slots, n \in AnswerLengths : CbseStudentAnswerText(t, n)
    \/ \E t \in Slots : CbseStudentAnswerOcrFails(t)
    \/ \E t \in Slots, r \in GradeReplies : CbseGradeReply(t, r)
    \/ \E t \in Slots : CbseGradeFails(t)

SpecSequential == ConcInit /\ [][SequentialNext]_vars

\* the CBSE engine with the messages that greet, reset and name a class
SetupMessages == {"hi", "reset", "Class 10", "Class 10 math", "yes"}

SetupNext == CbseNextOf(SetupMessages, {MarkedPaper}, {TwoQuestions}, {450}, {RelevantReply})

SpecSetup == ConcInit /\ [][SetupNext]_vars

\* the CBSE engine with the messages of a review of the marks
ReviewMessages == {"Class 10 math", "no", "incorrect", "Question 2 should be 0 marks"}

ReviewNext == CbseNextOf(ReviewMessages, {MarkedPaper}, {TwoQuestions}, {450}, {RelevantReply})

SpecReview == ConcInit /\ [][ReviewNext]_vars

\* the simple engine with instructions that name no marks or zero marks and
\* replies without the lists of a grading
InstructionMessages == {"hi", WorldWarQuestion, "grade out of 0 marks"}

InstructionInit ==
    /\ flow = "simple"
    /\ session = NoSession /\ others = NoOthers
    /\ turns = [t \in Slots |-> Idle]
    /\ last = NoTurn

InstructionNext ==
    SimpleNextOf(InstructionMessages, {"https://host/answer.jpg"}, {120},
                 {ListlessReply, Unparseable})

SpecInstruction == InstructionInit /\ [][InstructionNext]_vars

\* the subclass engine with the messages of a review of the marks
UpdateMessages == {"Class 10", "economics", "no", "yes", "Question 3 should be 5 marks"}

UpdateInit ==
    /\ flow = "legacy"
    /\ session = NoSession /\ others = NoOthers
    /\ turns = [t \in Slots |-> Idle]
    /\ last = NoTurn

UpdateNext == LegacyNextOf(UpdateMessages, ImageUrls, {MarkedPaper}, {450}, {RelevantReply})

SpecUpdate == UpdateInit /\ [][UpdateNext]_vars

-----------------------------------------------------------------------------
(* The claims *)

\* the edges the workflow of the CBSE engine declares
DeclaredEdges ==
    {<<INITIAL, WAITING_FOR_CLASS>>, <<WAITING_FOR_CLASS, WAITING_FOR_SUBJECT>>,
     <<WAITING_FOR_SUBJECT, WAITING_FOR_QUESTION_PAPER>>,
     <<WAITING_FOR_QUESTION_PAPER, PROCESSING_QUESTION_PAPER>>,
     <<PROCESSING_QUESTION_PAPER, EXTRACTING_QUESTION_MARKS>>,
     <<EXTRACTING_QUESTION_MARKS, WAITING_FOR_MARKS_CONFIRMATION>>,
     <<WAITING_FOR_MARKS_CONFIRMATION, WAITING_FOR_MARKS_UPDATE>>,
     <<WAITING_FOR_MARKS_UPDATE, WAITING_FOR_MARKS_CONFIRMATION>>,
     <<WAITING_FOR_MARKS_CONFIRMATION, WAITING_FOR_STUDENT_ANSWER>>,
     <<WAITING_FOR_STUDENT_ANSWER, GRADING_IN_PROGRESS>>,
     <<GRADING_IN_PROGRESS, COMPLETE>>, <<COMPLETE, FOLLOW_UP>>}

\* this step serves an image that arrived in COMPLETE or FOLLOW_UP
NewImageAfterGrading ==
    \E t \in Slots : /\ turns'[t].op \in {"upload", "url"}
                     /\ turns'[t].from \in {COMPLETE, FOLLOW_UP}
                     /\ turns'[t].pc = "conv" /\ turns[t].pc # "conv"

\* this step handles a text message with a reset phrase
ResetIntent ==
    \E t \in Slots : /\ turns[t].pc = "idle" /\ turns'[t].pc = "conv"
                     /\ turns'[t].op = "text" /\ turns'[t].msg \in ResetMessages

\* C1: in the CBSE engine every change of the step of a stored session is a
\* declared edge of the workflow, the re-entry into WAITING_FOR_CLASS for an
\* image that arrives in COMPLETE or FOLLOW_UP, or the re-entry into
\* WAITING_FOR_CLASS on a reset intent
C1_OnlyDeclaredEdges ==
    [][(flow = "cbse" /\ session # NoSession /\ session'.step # session.step)
          => \/ <<session.step, session'.step>> \in DeclaredEdges
             \/ session'.step = WAITING_FOR_CLASS /\ NewImageAfterGrading
             \/ session'.step = WAITING_FOR_CLASS /\ ResetIntent]_vars

\* C2: when a turn resumes after its grading call and stores its result, the
\* results that were stored before it stay in previousGradingResults and its
\* own result is added to them, also when another turn of the same user
\* stored a result while it waited
C2_NoLostResult ==
    [][\A t \in Slots :
           (/\ flow = "cbse" /\ turns[t].pc = "sa_grade" /\ turns'[t].pc = "conv"
            /\ turns'[t].note \in {"remote_ok", "remote_unparseable", "format_failed"})
               => /\ Len(Results(session')) = Len(Results(session)) + 1
                  /\ SubSeq(Results(session'), 1, Len(Results(session))) = Results(session)]_vars

\* C3: no session is left in GRADING_IN_PROGRESS while no turn of the user
\* is in flight: every turn that set the step has moved it on when it ends,
\* whatever the storage, OCR and grading calls did, in all three engines
C3_NeverStuckInGrading ==
    AllIdle => StepOf(session) # GRADING_IN_PROGRESS

\* a turn of the CBSE engine whose grading call was rejected has ended, no
\* turn is in flight and the session waits for the student answer again
C3_FailedGradingLeft ==
    /\ flow = "cbse" /\ AllIdle
    /\ last.op \in {"upload", "url"} /\ last.note = "remote_failed"
    /\ StepOf(session) = WAITING_FOR_STUDENT_ANSWER

\* C4: a text message with a reset phrase is honoured in the turn that
\* receives it, whatever the step: when the turn has ended the session is
\* reset and stands at the start of the workflow, INITIAL or
\* WAITING_FOR_QUESTION in the simple engine, WAITING_FOR_CLASS in the CBSE
\* engines
C4_ResetHonoured ==
    (last.op = "text" /\ last.end = "reply" /\ last.msg \in ResetMessages)
        => /\ IsReset(session)
           /\ IF flow = "simple" THEN session.step \in {INITIAL, WAITING_FOR_QUESTION}
              ELSE session.step = WAITING_FOR_CLASS

\* C5: in the simple engine and in the CBSE engine the result a grading
\* stores has a score from 0 to the maximum marks, when these are positive,
\* whatever the remote model answered
C5_ScoreWithinMarks ==
    (flow \in {"cbse", "simple"} /\ JustGraded /\ MarksUsed > 0)
        => (0 <= LastResult.score /\ LastResult.score <= MarksUsed)

\* C6: the result a grading stores has outOf equal to the maximum marks of
\* the grading and percentage equal to 100 * score / outOf: no outOf or
\* percentage of the remote response is kept
C6_PercentageRecomputed ==
    JustGraded
        => /\ LastResult.outOf = Some(MarksUsed)
           /\ LastResult.percentage # None
           /\ MarksUsed > 0
                  => SameNumber(Val(LastResult.percentage),
                                Quot(100 * LastResult.score, MarksUsed))

\* C7: a stored result whose remote response had is_relevant = false has
\* score 0
C7_IrrelevantScoresZero ==
    \A i \in 1..Len(Results(session)) :
        Results(session)[i].is_relevant = "false" => Results(session)[i].score = 0

\* C8: a turn whose remote grading call failed, or answered with a body that
\* does not parse, returns a reply, and it ends in COMPLETE with the local
\* fallback result appended to previousGradingResults
C8_FailureFallsBack ==
    last.note \in {"remote_failed", "remote_unparseable"}
        => /\ last.end = "reply"
           /\ session.step = COMPLETE
           /\ Results(session) # <<>>
           /\ LastResult.feedback = "fallback"

\* C9: a grading call is in flight only for total marks greater than 0: the
\* sum of the marks map in the CBSE engines, the marks of the instruction in
\* the simple engine
C9_GradesOnlyPositiveMarks ==
    \A t \in Slots :
        /\ turns[t].pc = "sa_grade" => MapSum(MarksOrEmpty(turns[t].snap.questionMarks)) > 0
        /\ turns[t].pc = "grade" => Val(turns[t].data) > 0

\* C10: in WAITING_FOR_MARKS_UPDATE the message "Question 3 should be 5
\* marks" sets the marks of question 3 to 5, leaves the other entries of the
\* marks map as they are, and moves the step to
\* WAITING_FOR_MARKS_CONFIRMATION
C10_UpdateGrammarApplied ==
    [][(/\ session # NoSession /\ session.step = WAITING_FOR_MARKS_UPDATE
        /\ session.questionMarks # None
        /\ HandlesText("Question 3 should be 5 marks", WAITING_FOR_MARKS_UPDATE))
           => /\ session'.step = WAITING_FOR_MARKS_CONFIRMATION
              /\ session'.questionMarks = Some(MapSet(Val(session.questionMarks), 3, 5))]_vars


\* this step ends the turn of the text message that arrived in the step
\* from: the CBSE engine returns its conversational reply, the other engines
\* handle the message and return in one step
TextTurnEnds(message, from) ==
    \/ /\ flow = "cbse"
       /\ \E t \in Slots : /\ turns[t].pc = "conv" /\ turns'[t].pc = "idle"
                           /\ turns[t].op = "text" /\ turns[t].msg = message
                           /\ turns[t].from = from
    \/ /\ flow # "cbse" /\ \A t \in Slots : turns'[t].pc = turns[t].pc
       /\ last'.op = "text" /\ last'.msg = message /\ last'.from = from

\* the messages of the teachers that match no update grammar and are neither
\* a greeting nor a reset
NonUpdateMessages ==
    {m \in CbseMessages \cup LegacyMessages :
         /\ UpdateMatch(m) = <<>> /\ legacyUpdateMatch(m) = <<>>
         /\ ~IsGreeting(Trim(ToLower(m)))
         /\ \A p \in ResetPhrases \cup {"another paper"} : ~Includes(ToLower(m), p)}

\* C11: in WAITING_FOR_MARKS_UPDATE a message that matches no update
\* grammar, and is neither a reset nor a greeting, is answered with a reply
\* and leaves the step WAITING_FOR_MARKS_UPDATE and the marks map as they
\* were
C11_NonMatchingReprompts ==
    [][\A m \in NonUpdateMessages :
           /\ (HandlesText(m, WAITING_FOR_MARKS_UPDATE)
                   \/ TextTurnEnds(m, WAITING_FOR_MARKS_UPDATE))
                 => session'.questionMarks = session.questionMarks
           /\ TextTurnEnds(m, WAITING_FOR_MARKS_UPDATE)
                 => /\ session'.step = WAITING_FOR_MARKS_UPDATE
                    /\ last'.end = "reply"]_vars

\* the vocabulary of a confirmation
AffirmativeTokens == {"yes", "correct", "right"}
NegativeTokens == {"no", "incorrect", "wrong", "not right"}

\* the messages of the teachers that say nothing for a confirmation: they
\* hold no token of the vocabulary and are neither a greeting nor a reset
OtherMessages ==
    {m \in NonUpdateMessages :
         \A w \in AffirmativeTokens \cup NegativeTokens : ~Includes(ToLower(m), w)}

\* C12: in WAITING_FOR_MARKS_CONFIRMATION a message that is a negative token
\* ends the turn in WAITING_FOR_MARKS_UPDATE with the marks map as it was
\* and isMarkingConfirmed still false, a message that is an affirmative
\* token sets isMarkingConfirmed and ends the turn in
\* WAITING_FOR_STUDENT_ANSWER, and a message without a token of the
\* vocabulary changes neither the step nor the marks map
C12_ConfirmationVocabulary ==
    [][\A m \in CbseMessages \cup LegacyMessages :
           /\ (/\ Trim(ToLower(m)) \in NegativeTokens \/ m \in OtherMessages
               /\ \/ HandlesText(m, WAITING_FOR_MARKS_CONFIRMATION)
                  \/ TextTurnEnds(m, WAITING_FOR_MARKS_CONFIRMATION))
                 => session'.questionMarks = session.questionMarks
           /\ (/\ Trim(ToLower(m)) \in NegativeTokens
               /\ TextTurnEnds(m, WAITING_FOR_MARKS_CONFIRMATION))
                 => /\ session'.step = WAITING_FOR_MARKS_UPDATE
                    /\ ~session'.isMarkingConfirmed
           /\ (/\ Trim(ToLower(m)) \in AffirmativeTokens
               /\ TextTurnEnds(m, WAITING_FOR_MARKS_CONFIRMATION))
                 => /\ session'.step = WAITING_FOR_STUDENT_ANSWER
                    /\ session'.isMarkingConfirmed
           /\ (m \in OtherMessages /\ TextTurnEnds(m, WAITING_FOR_MARKS_CONFIRMATION))
                 => session'.step = WAITING_FOR_MARKS_CONFIRMATION]_vars

\* the first turn of a user of the CBSE engine has completed, and its
\* message was "hi"
HiDone ==
    /\ flow = "cbse" /\ AllIdle
    /\ last.op = "text" /\ last.msg = "hi" /\ last.from = "none"

\* C13: for a user of the CBSE engine without a session, the step is
\* WAITING_FOR_CLASS when the turn of "hi" has completed; the turn of
\* "Class 10" that follows stores the class level CLASS_10 and the step
\* WAITING_FOR_SUBJECT, and they are what is stored when it has completed
C13_GreetingThenClass ==
    [][/\ HiDone' => session'.step = WAITING_FOR_CLASS
       /\ (HiDone /\ HandlesText("Class 10", session.step))
             => session'.classLevel = "class_10" /\ session'.step = WAITING_FOR_SUBJECT
       /\ (/\ \E from \in ConversationStep : TextTurnEnds("Class 10", from)
           /\ session.classLevel = "class_10" /\ session.step = WAITING_FOR_SUBJECT)
             => session'.classLevel = "class_10" /\ session'.step = WAITING_FOR_SUBJECT]_vars

\* the turn cur began in COMPLETE or FOLLOW_UP and brings a new image or a
\* reset message
ReentryTurn(cur) ==
    /\ cur.from \in {COMPLETE, FOLLOW_UP}
    /\ cur.op \in {"upload", "url"} \/ (cur.op = "text" /\ cur.msg \in ResetMessages)

\* the results stored before this step are still stored after it
ResultsKept ==
    /\ Len(Results(session)) <= Len(Results(session'))
    /\ SubSeq(Results(session'), 1, Len(Results(session))) = Results(session)

\* this step is a step of such a turn
ReentryStep ==
    \/ \E t \in Slots : turns[t].pc # "idle" /\ ReentryTurn(turns[t])
    \/ \E t \in Slots : turns'[t].pc # "idle" /\ ReentryTurn(turns'[t])
    \/ turns' = turns /\ ReentryTurn(last')

\* C14: a new image or a reset message that arrives in COMPLETE or FOLLOW_UP
\* ends its turn in WAITING_FOR_CLASS (WAITING_FOR_QUESTION in the simple
\* engine), and no step of that turn discards a grading result stored
\* before it
C14_ReentryKeepsResults ==
    [][/\ (AllIdle' /\ last'.end = "reply" /\ ReentryTurn(last'))
             => session'.step = IF flow = "simple" THEN WAITING_FOR_QUESTION
                                ELSE WAITING_FOR_CLASS
       /\ ReentryStep => ResultsKept]_vars

-----------------------------------------------------------------------------
(* The session store driven through its own interface                      *)
(* (utils/sessionStore.ts): the calls its clients make, in any order, for   *)
(* one user id.  flow = "store"; last.op is the method called last,         *)
(* last.from the step it found, last.note the method called before it and   *)
(* last.msg the step that one found                                         *)

\* the object resetCbseSession stores: the CBSE fields are there and empty
resetCbseSession ==
    [question |-> Null, studentAnswer |-> None, subjectArea |-> Null,
     contextualNotes |-> Null, marks |-> None, step |-> INITIAL,
     previousGradingResults |-> Some(<<>>),
     classLevel |-> Null, questionPaper |-> None, questionMarks |-> None,
     isMarkingConfirmed |-> FALSE, conversationHistory |-> None]

\* updateCbseSession: a session without class level has its CBSE fields
\* emptied before the data is merged into it
updateCbseSession(s, data) ==
    LET currentSession == getSession(s)
        initialised ==
            IF currentSession.classLevel = Null
            THEN [currentSession EXCEPT !.questionPaper = None, !.questionMarks = None,
                                        !.isMarkingConfirmed = FALSE]
            ELSE currentSession
    IN  [f \in DOMAIN initialised |->
            IF f \in DOMAIN data THEN data[f] ELSE initialised[f]]

\* the partial sessions the engines write
StoreUpdates ==
    {[step |-> WAITING_FOR_CLASS],
     [classLevel |-> "class_10", step |-> WAITING_FOR_SUBJECT],
     [subjectArea |-> "economics", step |-> WAITING_FOR_QUESTION_PAPER],
     [questionMarks |-> Some({<<1, 2>>, <<2, 3>>}), step |-> WAITING_FOR_MARKS_CONFIRMATION],
     [isMarkingConfirmed |-> TRUE, step |-> WAITING_FOR_STUDENT_ANSWER],
     [question |-> "Assessment of student work", step |-> WAITING_FOR_ANSWER],
     [marks |-> Some(10), step |-> GRADING_IN_PROGRESS],
     [step |-> COMPLETE,
      previousGradingResults |->
          Some(<<GradingResult(8, Some(10), Some(Quot(800, 10)), "undefined", "remote")>>)]}

\* a call of a method of the store returns at once
StoreCall(op) ==
    /\ flow = "store"
    /\ last' = [op |-> op, msg |-> last.from, from |-> StepOf(session),
                note |-> last.op, end |-> "reply"]
    /\ UNCHANGED <<flow, others, turns>>

StoreGetSession == StoreCall("getSession") /\ session' = getSession(session)

StoreUpdateSession(data) ==
    StoreCall("updateSession") /\ session' = updateSession(session, data)

\* a reset that archives the assessment it ends: it keeps the stored results
\* and appends one for the session it replaces
StoreResetSessionArchiving ==
    /\ StoreCall("resetSession")
    /\ session' = [resetSession EXCEPT !.previousGradingResults =
                      Some(Append(IF session = NoSession THEN <<>>
                                  ELSE ResultsOrEmpty(session.previousGradingResults),
                                  GradingResult(0, Some(10), Some(Quot(0, 10)),
                                                "undefined", "Previous grading session")))]

StoreResetSession == StoreCall("resetSession") /\ session' = resetSession

StoreResetCbseSession == StoreCall("resetCbseSession") /\ session' = resetCbseSession

StoreUpdateCbseSession(data) ==
    StoreCall("updateCbseSession") /\ session' = updateCbseSession(session, data)

StoreInit ==
    /\ flow = "store" /\ session = NoSession /\ others = NoOthers
    /\ turns = [t \in Slots |-> Idle] /\ last = NoTurn

StoreNext ==
    \/ StoreGetSession
    \/ \E data \in StoreUpdates : StoreUpdateSession(data)
    \/ StoreResetSession
    \/ StoreResetCbseSession
    \/ \E data \in StoreUpdates : StoreUpdateCbseSession(data)

SpecStore == StoreInit /\ [][StoreNext]_vars

\* the methods of the store that reset a session
ResetMethods == {"resetSession", "resetCbseSession"}

\* C15: a reset method of the store applied a second time, right after
\* itself, leaves the store as its first application left it, whatever the
\* session was before
C15_ResetIdempotent ==
    [][(last.op \in ResetMethods /\ last'.op = last.op /\ last'.note = last.op)
          => session' = session]_vars

\* a reset method was applied twice in a row to a session that was in
\* COMPLETE, with a grading result stored
C15_ResetTwice ==
    /\ flow = "store" /\ last.op \in ResetMethods /\ last.note = last.op
    /\ last.msg = COMPLETE /\ last.from = INITIAL
    /\ session \in {resetSession, resetCbseSession}

\* C16: after a reset every field of the session has the value it has in
\* the session getSession creates for a user id it has not seen, but for the
\* grading results; the step of both is INITIAL
C16_ResetIsInitial ==
    (flow = "store" /\ last.op \in ResetMethods)
        => /\ \A f \in DOMAIN NewSession \ {"previousGradingResults"} :
                  session[f] = NewSession[f]
           /\ session.step = INITIAL
           /\ NewSession.step = INITIAL

\* getOrCreateSession of the engine that serves the requests: the stored
\* session afterwards
Lookup(s) ==
    IF flow = "cbse" THEN cbseGetOrCreateSession(s)
    ELSE IF flow = "legacy" THEN legacyGetOrCreateSession(s)
    ELSE simpleGetOrCreateSession(s)

\* C17: a session that is in the store stays there; looking it up at the
\* start of a turn changes none of its fields, and when the CBSE engine has
\* looked it up again to build its reply the stored session is still the one
\* that the handling of the message left
C17_LookupChangesNothing ==
    [][/\ session # NoSession => session' # NoSession
       /\ (flow # "store" /\ AllIdle /\ session # NoSession) => Lookup(session) = session
       /\ \A m \in CbseMessages :
              (flow = "cbse" /\ session # NoSession /\ HandlesText(m, session.step))
                 => session' = CbseIntentOf(session, CbseParsed[m], session)]_vars

\* the steps that have a case in the switch of ChatService.processTextMessage
SimpleCases ==
    {INITIAL, COMPLETE, FOLLOW_UP, WAITING_FOR_QUESTION, WAITING_FOR_ANSWER,
     WAITING_FOR_INSTRUCTION, GRADING_IN_PROGRESS}

\* the steps that have one in the switch of the subclass as well
LegacyCases ==
    {INITIAL, WAITING_FOR_CLASS, WAITING_FOR_SUBJECT, WAITING_FOR_QUESTION_PAPER,
     WAITING_FOR_MARKS_CONFIRMATION, WAITING_FOR_STUDENT_ANSWER}

\* the steps the text handling of the CBSE engine has a branch for: those
\* processMessageIntent tests and those getFallbackResponse has a case for
CbseCases ==
    {INITIAL, WAITING_FOR_CLASS, WAITING_FOR_SUBJECT, WAITING_FOR_QUESTION_PAPER,
     WAITING_FOR_MARKS_CONFIRMATION, WAITING_FOR_MARKS_UPDATE,
     WAITING_FOR_STUDENT_ANSWER, GRADING_IN_PROGRESS, COMPLETE}

\* the steps no handler of the engine is dedicated to
UnhandledSteps ==
    IF flow = "cbse" THEN ConversationStep \ CbseCases
    ELSE IF flow = "simple" THEN ConversationStep \ SimpleCases
    ELSE ConversationStep \ (SimpleCases \cup LegacyCases)

\* C18: a text turn on a session whose step has no dedicated handler does
\* not throw: the engine handles the message by coercing the step back to
\* INITIAL or WAITING_FOR_CLASS and replies, whatever the engine and the
\* message
C18_UnhandledStepRecovers ==
    [][\A m \in CbseMessages \cup SimpleMessages \cup LegacyMessages :
           (/\ session # NoSession
            /\ session.step \in UnhandledSteps
            /\ HandlesText(m, session.step))
              => /\ flow # "cbse" => last'.end = "reply"
                 /\ session'.step \in {INITIAL, WAITING_FOR_CLASS}]_vars

\* the steps in which processImageUpload expects an image
ImageSteps ==
    {WAITING_FOR_QUESTION_PAPER, WAITING_FOR_STUDENT_ANSWER, COMPLETE, FOLLOW_UP}

\* the fields a session has collected; a result list that was never written
\* counts as the empty one
Collected(s) ==
    [f \in {"classLevel", "subjectArea", "questionPaper", "questionMarks",
            "isMarkingConfirmed", "previousGradingResults"} |->
        IF f = "previousGradingResults"
        THEN ResultsOrEmpty(getSession(s).previousGradingResults)
        ELSE getSession(s)[f]]

\* slot t holds, before or after the step, an image turn of the CBSE engine
\* that began in a step expecting no image, and the step belongs to that turn
UnexpectedImageStep(t) ==
    /\ flow = "cbse" /\ turns'[t] # turns[t]
    /\ LET cur == IF turns[t].pc = "idle" THEN turns'[t] ELSE turns[t]
       IN  cur.op \in {"upload", "url"} /\ cur.from \notin ImageSteps

\* C19: in the CBSE engine every step of an image turn that began in a step
\* expecting no image leaves the collected fields as they were, and the turn
\* ends with a reply, never with an exception
C19_UnexpectedImageGuided ==
    [][\A t \in Slots :
          UnexpectedImageStep(t)
             => /\ Collected(session') = Collected(session)
                /\ turns'[t].pc = "idle" => last'.end = "reply"]_vars

\* the requests the three engines serve
TurnOps == {"text", "upload", "url"}

\* C20: every turn of processTextMessage, processImageUpload and
\* processImageFromUrl that has ended, in any of the engines and whatever
\* collaborator failed in it, ended with a reply and not with an exception
C20_TurnsNeverThrow ==
    last.op \in TurnOps => last.end = "reply"

\* the replies of the remote model that parse and lack a required field
PartialReplies == {r \in GradeReplies : r.parses /\ ~r.lists}

\* C21: when the remote model answers a grading request with JSON that lacks
\* a required field, the result the turn stores is the local fallback
\* result, in each of the three engines
C21_PartialReplyFallsBack ==
    [][\A t \in Slots, r \in PartialReplies :
          (SimpleGradeReply(t, r) \/ LegacyGradeReply(t, r) \/ CbseGradeReply(t, r))
             => Results(session')[Len(Results(session'))].feedback = "fallback"]_vars

-----------------------------------------------------------------------------
(* The remote collaborators driven through their own interface              *)
(* (services/ocrService.ts, services/openaiService.ts): calls of            *)
(* extractTextFromImage, extractTextFromImageUrl and gradeAnswer, each in   *)
(* a slot, one call at a time: a call reads and writes nothing another call *)
(* reads.  flow = "services"; the snap of a call holds the fields of the    *)
(* service object it reads, its data the counters of the call; last shows   *)
(* how the call that returned last ended                                    *)

\* OCR_MAX_RETRIES when the environment does not set it
DefaultMaxRetries == 3

\* the fields of the OcrService object: backupEndpoint tells whether
\* OCR_BACKUP_ENDPOINT is set
OcrConfigs ==
    [demoMode : BOOLEAN, backupEndpoint : BOOLEAN, maxRetries : 0..DefaultMaxRetries]

\* the file at imagePath: absent, of 0 bytes, or an image
OcrFiles == {"missing", "empty", "answer.jpg"}

\* what a request to an OCR endpoint ends in: a text, a text of fewer than 5
\* characters, a body without extracted_text, or a timeout or a status
\* other than 200
OcrOutcomes == {"text", "short", "invalid", "transport"}

\* the OpenAI API key is configured, or it is not
GradeKeys == BOOLEAN

\* the call cur of slot t returns result (end = "reply") or rejects
EndCall(t, cur, result, reason, end) ==
    /\ turns' = [turns EXCEPT ![t] = Idle]
    /\ last' = [op |-> cur.op, msg |-> cur.msg, from |-> cur.snap, note |-> reason,
                end |-> end, result |-> result, sent |-> cur.data.sent,
                iterations |-> cur.data.iterations]

\* handleOcrFailure: the demo text, for every reason
handleOcrFailure(t, cur, reason) == EndCall(t, cur, "demo_text", reason, "reply")

\* a retry loop that prefers the backup endpoint: it is called in every
\* iteration when there is one
OcrAttemptBackupFirst(t, cur) ==
    IF cur.snap.backupEndpoint
    THEN turns' = [turns EXCEPT ![t] =
                      [cur EXCEPT !.pc = "backup", !.data.sent = cur.data.sent + 1]]
         /\ UNCHANGED last
    ELSE IF cur.data.retries < cur.snap.maxRetries
    THEN turns' = [turns EXCEPT ![t] =
                      [cur EXCEPT !.pc = "primary", !.data.sent = cur.data.sent + 1]]
         /\ UNCHANGED last
    ELSE handleOcrFailure(t, cur, "All attempts failed")

\* the body of the retry loop after its delay: the primary endpoint in every
\* iteration but the last, the backup endpoint in the last one when there is
\* one; with no request to make, retries++ ends the loop
OcrAttempt(t, cur) ==
    IF cur.data.retries < cur.snap.maxRetries
    THEN turns' = [turns EXCEPT ![t] =
                      [cur EXCEPT !.pc = "primary", !.data.sent = cur.data.sent + 1]]
         /\ UNCHANGED last
    ELSE IF cur.snap.backupEndpoint
    THEN turns' = [turns EXCEPT ![t] =
                      [cur EXCEPT !.pc = "backup", !.data.sent = cur.data.sent + 1]]
         /\ UNCHANGED last
    ELSE handleOcrFailure(t, cur, "All attempts failed")

\* the head of the retry loop with the given value of retries: the loop ends,
\* or an iteration begins, with a delay when it is not the first
OcrIterate(t, cur, retries) ==
    IF retries > cur.snap.maxRetries
    THEN handleOcrFailure(t, cur, "All attempts failed")
    ELSE LET next == [cur EXCEPT !.data.retries = retries,
                                 !.data.iterations = cur.data.iterations + 1]
         IN  IF retries > 0
             THEN turns' = [turns EXCEPT ![t] = [next EXCEPT !.pc = "delay"]]
                  /\ UNCHANGED last
             ELSE OcrAttempt(t, next)

\* a call accepted into a slot: no request sent, no iteration begun
NewCall(op, image, cfg) ==
    [Idle EXCEPT !.op = op, !.msg = image, !.from = "none", !.snap = cfg,
                 !.data = [retries |-> 0, sent |-> 0, iterations |-> 0]]

\* extractTextFromImage up to its first await or to its return
extractTextFromImage(t, imagePath, cfg) ==
    /\ flow = "services" /\ Free(t)
    /\ LET cur == NewCall("extractTextFromImage", imagePath, cfg)
       IN  IF imagePath = "missing" THEN handleOcrFailure(t, cur, "File not found")
           ELSE IF imagePath = "empty" THEN handleOcrFailure(t, cur, "Empty file")
           ELSE IF cfg.demoMode THEN EndCall(t, cur, "demo_text", "demo mode", "reply")
           ELSE OcrIterate(t, cur, 0)
    /\ UNCHANGED <<flow, others, session>>

\* extractTextFromImageUrl up to its first await or to its return
extractTextFromImageUrl(t, imageUrl, cfg) ==
    /\ flow = "services" /\ Free(t)
    /\ LET cur == NewCall("extractTextFromImageUrl", imageUrl, cfg)
       IN  IF cfg.demoMode THEN EndCall(t, cur, "demo_text", "demo mode", "reply")
           ELSE OcrIterate(t, cur, 0)
    /\ UNCHANGED <<flow, others, session>>

\* the delay before an iteration that is not the first has passed
OcrDelayDone(t) ==
    /\ flow = "services" /\ turns[t].pc = "delay"
    /\ OcrAttempt(t, turns[t])
    /\ UNCHANGED <<flow, others, session>>

\* callOcrService / callOcrServiceWithUrl ended: a text is returned, so is
\* the demo text that stands for a short one; an exception is caught in the
\* loop, which goes on with retries++
OcrResponse(t, outcome) ==
    /\ flow = "services" /\ turns[t].pc \in {"primary", "backup"}
    /\ IF outcome = "text" THEN EndCall(t, turns[t], "ocr_text", "OCR successful", "reply")
       ELSE IF outcome = "short" THEN handleOcrFailure(t, turns[t], "Empty result")
       ELSE OcrIterate(t, turns[t], turns[t].data.retries + 1)
    /\ UNCHANGED <<flow, others, session>>

\* gradeAnswer up to the await of its request: it sends none without a key
GradeAnswerCall(t, hasKey, textLength, maxMarks) ==
    /\ flow = "services" /\ Free(t)
    /\ LET cur == [NewCall("gradeAnswer", "", [textLength |-> textLength, maxMarks |-> maxMarks])
                      EXCEPT !.data.iterations = 1]
       IN  IF hasKey
           THEN turns' = [turns EXCEPT ![t] = [cur EXCEPT !.pc = "request", !.data.sent = 1]]
                /\ UNCHANGED last
           ELSE EndCall(t, cur, gradeAnswer(RequestFailed, textLength, maxMarks),
                        "API key is not configured correctly", "reply")
    /\ UNCHANGED <<flow, others, session>>

\* the request of gradeAnswer ended, with a reply of the remote model or
\* with a failure: gradeAnswer returns
GradeAnswerResponse(t, reply) ==
    /\ flow = "services" /\ turns[t].pc = "request"
    /\ EndCall(t, turns[t],
               gradeAnswer(reply, turns[t].snap.textLength, turns[t].snap.maxMarks),
               IF reply.parses THEN "remote_ok"
               ELSE IF reply = RequestFailed THEN "remote_failed" ELSE "remote_unparseable",
               "reply")
    /\ UNCHANGED <<flow, others, session>>

\* the maximum marks of a grading request
GradeMarks == {5, 20}

ServicesInit ==
    /\ flow = "services"
    /\ session = NoSession /\ others = NoOthers
    /\ turns = [t \in Slots |-> Idle]
    /\ last = NoTurn

\* a call is served whenever it is made, also while another call awaits
ServicesNext ==
    \/ \E t \in Slots, f \in OcrFiles, cfg \in OcrConfigs : extractTextFromImage(t, f, cfg)
    \/ \E t \in Slots, cfg \in OcrConfigs :
          extractTextFromImageUrl(t, "https://host/answer.jpg", cfg)
    \/ \E t \in Slots : OcrDelayDone(t)
    \/ \E t \in Slots, o \in OcrOutcomes : OcrResponse(t, o)
    \/ \E t \in Slots, k \in GradeKeys, n \in AnswerLengths, m \in GradeMarks :
          GradeAnswerCall(t, k, n, m)
    \/ \E t \in Slots, r \in GradeReplies \cup {RequestFailed} : GradeAnswerResponse(t, r)

SpecServices == ServicesInit /\ [][ServicesNext]_vars

\* C22: when the request of gradeAnswer failed and gradeAnswer returned the
\* local fallback result, it had sent as many requests as the maximum number
\* of attempts, 3 by default
C22_FallbackAfterRetries ==
    (/\ last.op = "gradeAnswer" /\ last.note \in {"remote_failed", "remote_unparseable"}
     /\ last.result.feedback = "fallback")
        => last.sent = DefaultMaxRetries

\* the two methods of the OCR collaborator
OcrMethods == {"extractTextFromImage", "extractTextFromImageUrl"}

\* C23: outside demo mode a call of extractTextFromImage or of
\* extractTextFromImageUrl in which every attempt failed ends with an
\* exception, and not with the demo text as its result
C23_OcrFailsClosed ==
    (/\ last.op \in OcrMethods /\ ~last.from.demoMode
     /\ last.note = "All attempts failed")
        => last.end = "throw" /\ last.result # "demo_text"

\* C30: when every attempt of a call of the OCR collaborator failed, the
\* retry loop has run maxRetries + 1 iterations and has sent one request in
\* each of them, with a backup endpoint and without one
C30_OneRequestPerIteration ==
    (last.op \in OcrMethods /\ last.note = "All attempts failed")
        => /\ last.iterations = last.from.maxRetries + 1
           /\ last.sent = last.iterations

\* a grading result with a positive outOf, a score from 0 to outOf and the
\* percentage 100 * score / outOf
WellFormedResult(r) ==
    /\ r.outOf # None /\ Val(r.outOf) > 0
    /\ 0 <= r.score /\ r.score <= Val(r.outOf)
    /\ r.percentage # None
    /\ SameNumber(Val(r.percentage), Quot(100 * r.score, Val(r.outOf)))

\* C24: every step leaves in previousGradingResults only results with
\* outOf > 0, 0 <= score <= outOf and percentage = 100 * score / outOf, the
\* entry added for a new image after a grading included, and it changes no
\* element that the list held before and still holds
C24_ResultsWellFormedAndKept ==
    [][/\ \A i \in 1..Len(Results(session')) : WellFormedResult(Results(session')[i])
       /\ \A i \in 1..Min(Len(Results(session)), Len(Results(session'))) :
             Results(session')[i] = Results(session)[i]]_vars

\* C25: every entry of the marks map of the session has a question number
\* that is a positive integer and marks that are a positive integer,
\* whichever of the structured extraction, the extractor of the engine and a
\* marks-correction message wrote it
C25_MarksMapPositive ==
    session # NoSession =>
        \A e \in MarksOrEmpty(session.questionMarks) :
            e[1] \in Nat \ {0} /\ e[2] \in Nat \ {0}

-----------------------------------------------------------------------------
(* The extractors of the marks map applied to a question paper table:       *)
(* flow = "extract"; slot 1 holds the OCR text of the paper (msg) and the   *)
(* marks of its rows (data); last shows the extractor applied last (op)     *)
(* and the map it returned (note)                                           *)

\* the decimal digits of the numbers 1 to 9
DigitText == <<"1", "2", "3", "4", "5", "6", "7", "8", "9">>

\* the marks a row of the table may carry, and the most rows a table has
RowMarks == {2, 3}
MaxRows == 5

\* the rows of a table: the marks of row 1, of row 2, ...
TableRows == UNION {[1..n -> RowMarks] : n \in 1..MaxRows}

\* the OCR text of the table: the header row, then one line "N. <question
\* text>   M" for each row
TableText(rows) ==
    <<"QUESTIONS | MARKS">> \o
        [n \in 1..Len(rows) |-> DigitText[n] \o ". What is X?   " \o DigitText[rows[n]]]

\* the revisions of extractQuestionMarks: of services/cbseChatService.ts and
\* of unnamed/part_005
Extractors == {"extractQuestionMarks", "legacyExtractQuestionMarks"}

\* an extractor is applied to the text of the paper
ExtractMarks(extractor) ==
    /\ flow = "extract" /\ turns[1].pc = "paper"
    /\ last' = [op |-> extractor, msg |-> turns[1].msg, from |-> "none",
                note |-> IF extractor = "extractQuestionMarks"
                         THEN extractQuestionMarks(turns[1].msg)
                         ELSE legacyExtractQuestionMarks(turns[1].msg),
                end |-> "reply"]
    /\ UNCHANGED <<flow, others, session, turns>>

ExtractInit ==
    /\ flow = "extract"
    /\ session = NoSession /\ others = NoOthers
    /\ \E rows \in TableRows :
          turns = [t \in Slots |->
                      IF t = 1
                      THEN [Idle EXCEPT !.pc = "paper", !.msg = TableText(rows), !.data = rows]
                      ELSE Idle]
    /\ last = NoTurn

ExtractNext == \E extractor \in Extractors : ExtractMarks(extractor)

SpecExtract == ExtractInit /\ [][ExtractNext]_vars

\* C26: for a text with the header row QUESTIONS | MARKS and rows of the
\* form "N. <question text>   M", an extractor returns the map with the
\* entry N -> M for every row and no other entry; five rows with 2 marks
\* give {1:2, 2:2, 3:2, 4:2, 5:2}
C26_TableRowsExtracted ==
    last.op \in Extractors
        => last.note = {<<n, turns[1].data[n]>> : n \in 1..Len(turns[1].data)}

-----------------------------------------------------------------------------
(* The intent detectors applied to a message: flow = "intent"; slot 1 holds *)
(* the message (msg) and the step of the session (from); last shows the     *)
(* detector applied last (op) and the intent it returned (note)             *)

\* messages with a reset or new-session phrase, alone and together with a
\* greeting, a request for help, a class, a grading verb and a question
IntentMessages ==
    {"reset", "start over", "please restart the grading", "hi, reset",
     "help me start over", "new session for class 9", "reset and grade again",
     "why not a new session?"}

\* detectUserIntent of ChatService and of its subclass
Detectors == {"detectUserIntent", "legacyDetectUserIntent"}

\* a detector is applied to the message in the step of the session
DetectIntent(detector) ==
    /\ flow = "intent" /\ turns[1].pc = "message"
    /\ last' = [op |-> detector, msg |-> turns[1].msg, from |-> turns[1].from,
                note |-> IF detector = "detectUserIntent"
                         THEN detectUserIntent(turns[1].msg, turns[1].from)
                         ELSE legacyDetectUserIntent(turns[1].msg, turns[1].from),
                end |-> "reply"]
    /\ UNCHANGED <<flow, others, session, turns>>

IntentInit ==
    /\ flow = "intent"
    /\ session = NoSession /\ others = NoOthers
    /\ \E m \in IntentMessages, step \in ConversationStep :
          turns = [t \in Slots |->
                      IF t = 1 THEN [Idle EXCEPT !.pc = "message", !.msg = m, !.from = step]
                      ELSE Idle]
    /\ last = NoTurn

IntentNext == \E detector \in Detectors : DetectIntent(detector)

SpecIntent == IntentInit /\ [][IntentNext]_vars

\* C27: for a message that contains a reset or new-session phrase a detector
\* returns NEW_SESSION in every step of the session, also when the message
\* matches the rule of a greeting, of a request for help, of a class or a
\* subject, of a grading instruction or of a follow-up question as well
C27_ResetPhraseWins ==
    (last.op \in Detectors /\ \E p \in ResetPhrases : Includes(ToLower(last.msg), p))
        => last.note = NEW_SESSION

-----------------------------------------------------------------------------
(* The request layer (controllers/chatController.ts): flow = "request".    *)
(* POST /chat is served by handleChatRequest, which hands a JSON body to   *)
(* handleTextMessage and a multipart body to handleFileUpload; both call   *)
(* the simple engine (chatService)                                         *)

\* the messages of the request bodies: messages of the simple engine and a
\* body without a message
RequestMessages == {"", "hi", "why this score?", "grade out of 10 marks"}

\* the words handleTextMessage looks for anywhere in the lowered message
GreetingParts == {"hello", "hi", "hey", "start"}

\* the condition of the "initial greeting" branch of handleTextMessage
IsGreetingRequest(message) ==
    \E w \in GreetingParts : Includes(ToLower(message), w)

\* IsGreetingRequest of the messages above, computed once
GreetingRequests == [m \in RequestMessages |-> IsGreetingRequest(m)]

\* the userId of the request bodies: the user's id, the same id padded with
\* spaces, and no id
RawUserIds == {ClientId, " u ", ""}

\* an id uuidv4 may return: one that names no entry yet
Fresh(id) == id \in GeneratedIds /\ others[id] = NoSession

\* the entry handleTextMessage and handleFileUpload work on: the trimmed
\* userId of the body, or a generated id when that is empty
TrimmedUserId(rawUserId, id) ==
    IF Len(Trim(rawUserId)) > 0 THEN id = Trim(rawUserId) ELSE Fresh(id)

\* the entry handleGreeting works on: req.body.userId || uuidv4()
GreetingUserId(rawUserId, id) ==
    IF rawUserId # "" THEN id = rawUserId ELSE Fresh(id)

\* chatService.processTextMessage(userId, message), as the request layer
\* calls it; under a generated id the engine finds no entry, getSession
\* stores a new one and the turn does not await
ProcessTextMessage(t, userId, message) ==
    IF userId = ClientId
    THEN SimpleTextMessage(message) \/ SimpleInstruction(t, message)
    ELSE /\ flow \in SimpleFlows
         /\ LET s == simpleGetOrCreateSession(others[userId])
            IN  others' = [others EXCEPT ![userId] =
                              SimpleSwitch(s, message, SimpleParsed[message].intent[s.step])]
         /\ Instant("text", message, StepOf(others[userId]), userId)
         /\ UNCHANGED <<flow, session>>

\* chatController.handleGreeting: the entry under the userId of the body as
\* it was sent, or under a generated id, is reset through the session store
\* and the greeting is sent
handleGreeting(rawUserId, message) ==
    \E userId \in {ClientId} \cup OtherIds :
        /\ GreetingUserId(rawUserId, userId)
        /\ IF userId = ClientId
           THEN session' = resetSession /\ UNCHANGED others
           ELSE others' = [others EXCEPT ![userId] = resetSession] /\ UNCHANGED session
        /\ last' = [op |-> "handleGreeting", msg |-> message,
                    from |-> StepOf(IF userId = ClientId THEN session ELSE others[userId]),
                    note |-> userId, end |-> "reply"]
        /\ UNCHANGED <<flow, turns>>

\* handleTextMessage: a body without a message is answered with status 400, a
\* message with a greeting part goes to handleGreeting with the request as
\* it came, any other message to the engine under the trimmed or generated
\* id
handleTextMessage(t, rawUserId, message) ==
    /\ flow = "request"
    /\ IF message = ""
       THEN /\ last' = [op |-> "handleTextMessage", msg |-> message,
                        from |-> StepOf(session), note |-> "400", end |-> "reply"]
            /\ UNCHANGED <<flow, session, others, turns>>
       ELSE \E userId \in {ClientId} \cup OtherIds :
                /\ TrimmedUserId(rawUserId, userId)
                /\ IF GreetingRequests[message] THEN handleGreeting(rawUserId, message)
                   ELSE ProcessTextMessage(t, userId, message)

\* chatService.processImageUpload(userId, imagePath) up to the await of
\* uploadFile, as the request layer calls it; under a generated id the turn
\* runs on the new entry getSession has stored under that id
ProcessImageUpload(t, userId) ==
    IF userId = ClientId THEN SimpleImageUpload(t)
    ELSE /\ flow \in SimpleFlows /\ Free(t)
         /\ LET s == simpleGetOrCreateSession(others[userId])
            IN  /\ MayPush(s)
                /\ others' = [others EXCEPT ![userId] = ImageUploadBegins(s)]
         /\ Goto(t, NewTurn("upload", "", StepOf(others[userId])), "upload",
                 Keep(NewSession, {}), <<>>, userId)
         /\ last' = NoTurn
         /\ UNCHANGED <<flow, session>>

\* handleFileUpload with a stored image file: sessionStore.getSession, then
\* chatService.processImageUpload, both under the trimmed userId or, when
\* that is empty, under a generated id
handleFileUpload(t, rawUserId) ==
    /\ flow = "request"
    /\ \E userId \in {ClientId} \cup OtherIds :
          TrimmedUserId(rawUserId, userId) /\ ProcessImageUpload(t, userId)

RequestInit ==
    /\ flow = "request"
    /\ session = NoSession /\ others = NoOthers
    /\ turns = [t \in Slots |-> Idle]
    /\ last = NoTurn

\* the requests of the client are served one after the other here; turns that
\* overlap are followed under the specifications of the engines
RequestNext ==
    \/ \E t \in Slots, id \in RawUserIds, m \in RequestMessages :
          AllIdle /\ handleTextMessage(t, id, m)
    \/ \E t \in Slots, id \in RawUserIds : AllIdle /\ handleFileUpload(t, id)
    \/ \E t \in Slots : SimpleUploadDone(t)
    \/ \E t \in Slots : SimpleOcrText(t, 120)
    \/ \E t \in Slots : SimpleImageFails(t)
    \/ \E t \in Slots : SimpleGradeReply(t, RelevantReply)
    \/ \E t \in Slots : SimpleGradeFails(t)

SpecRequest == RequestInit /\ [][RequestNext]_vars

\* C28: the request layer hands every text message to processTextMessage:
\* whatever words the message contains and whatever the userId of the body,
\* the step that serves a request with a message is a step of the engine
\* under the trimmed or generated id, and the entries of the store are
\* written by the engine alone, never reset or modified by the request layer
C28_OnlyEngineWritesSession ==
    [][\A t \in Slots, id \in RawUserIds, m \in RequestMessages \ {""} :
          handleTextMessage(t, id, m)
              => \E userId \in {ClientId} \cup OtherIds :
                    TrimmedUserId(id, userId) /\ ProcessTextMessage(t, userId, m)]_vars

-----------------------------------------------------------------------------
\* the steps a turn of the CBSE engine stores while it is still running
IntermediateSteps ==
    {PROCESSING_QUESTION_PAPER, EXTRACTING_QUESTION_MARKS, GRADING_IN_PROGRESS}

\* C29: a turn commits one consistent new state of the session, so the state
\* another turn of the same user finds in the store when it begins is never
\* an intermediate state of a turn in flight: no turn begins in
\* PROCESSING_QUESTION_PAPER, EXTRACTING_QUESTION_MARKS or GRADING_IN_PROGRESS
C29_NoIntermediateStateSeen ==
    \A t \in Slots : turns[t].pc # "idle" => turns[t].from \notin IntermediateSteps

-----------------------------------------------------------------------------
\* C31: in the retry loop a request to the backup endpoint is in flight only
\* when a backup endpoint is configured, in the final iteration (retries =
\* maxRetries), and after the primary endpoint was called and failed in each
\* of the maxRetries earlier iterations: a call in which the primary
\* succeeded has returned and sends nothing more
C31_BackupOnlyLast ==
    \A t \in Slots :
        turns[t].pc = "backup"
            => /\ turns[t].snap.backupEndpoint
               /\ turns[t].data.retries = turns[t].snap.maxRetries
               /\ turns[t].data.iterations = turns[t].snap.maxRetries + 1
               /\ turns[t].data.sent = turns[t].snap.maxRetries + 1

\* the backup endpoint is being called after the primary endpoint has failed
\* in three iterations
C31_BackupCalled ==
    \E t \in Slots :
        /\ turns[t].pc = "backup"
        /\ turns[t].snap.maxRetries = DefaultMaxRetries
        /\ turns[t].data.sent = DefaultMaxRetries + 1

-----------------------------------------------------------------------------
(* The local fallback gradings applied to an answer: flow = "fallback";     *)
(* slot 1 holds the length of the answer and the maximum marks (data); last *)
(* shows the function applied last (op) and the score it returned (note)    *)

\* lengths of a student answer: empty, short, just substantial, longer; at
\* 174 characters out of 25 marks and at 210 out of 45 the product of the
\* doubles falls just below a half
FallbackLengths == {0, 150, 174, 201, 210, 240, 300, 450}

\* the marks a grading is out of: 1 .. MaxFallbackMarks
MaxFallbackMarks == 50

\* getFallbackGrading of the grading service and getFallbackCbseGrading of
\* the CBSE engine
Fallbacks == {"getFallbackGrading", "getFallbackCbseGrading"}

\* a fallback grading is computed for the answer
FallbackGrade(fallback) ==
    /\ flow = "fallback" /\ turns[1].pc = "answer"
    /\ last' = [op |-> fallback, msg |-> "", from |-> "none",
                note |-> IF fallback = "getFallbackGrading"
                         THEN getFallbackGrading(turns[1].data.textLength,
                                                 turns[1].data.maxMarks).score
                         ELSE getFallbackCbseGrading(turns[1].data.textLength,
                                                     turns[1].data.maxMarks).score,
                end |-> "reply"]
    /\ UNCHANGED <<flow, others, session, turns>>

FallbackInit ==
    /\ flow = "fallback"
    /\ session = NoSession /\ others = NoOthers
    /\ \E n \in FallbackLengths, m \in 1..MaxFallbackMarks :
          turns = [t \in Slots |->
                      IF t = 1
                      THEN [Idle EXCEPT !.pc = "answer",
                                        !.data = [textLength |-> n, maxMarks |-> m]]
                      ELSE Idle]
    /\ last = NoTurn

FallbackNext == \E fallback \in Fallbacks : FallbackGrade(fallback)

SpecFallback == FallbackInit /\ [][FallbackNext]_vars

\* a fallback grading was computed for an answer of more than 200 characters
SubstantialGraded == last.op \in Fallbacks /\ turns[1].data.textLength > 200

\* C32: for every maxMarks > 0 and every answer of more than 200 characters
\* the fallback score s of getFallbackGrading and of getFallbackCbseGrading
\* satisfies 0.4 * maxMarks <= s <= 0.8 * maxMarks
C32_FallbackBand ==
    SubstantialGraded
        => /\ 4 * turns[1].data.maxMarks <= 10 * last.note
           /\ 10 * last.note <= 8 * turns[1].data.maxMarks

-----------------------------------------------------------------------------
(* The layers of extractQuestionMarks of unnamed/part_005 applied to a      *)
(* paper: flow = "layers"; slot 1 holds the lines of the paper (msg) and    *)
(* how they were chosen (data); last shows the map after each layer (note)  *)

\* the most questions a paper of the layered check has
MaxQuestions == 3

\* the forms of a question line: without marks, with inline marks, with
\* marks in the column of the table, and with both
LineForms == {"plain", "inline", "column", "both"}

\* the line of question n in the given form: the column marks stand at
\* offset 22, under the word MARKS of the table header
QuestionLineOf(n, form) ==
    DigitText[n] \o
        (IF form = "plain" THEN ". Define demand"
         ELSE IF form = "inline" THEN ". Define [3 marks]"
         ELSE IF form = "column" THEN ". Define demand      4"
         ELSE ". Define [3 marks]   4")

\* the distribution statements a paper may declare
DistributionLines ==
    {<<>>, <<"2 questions of 2 marks each">>,
     <<"1 question of 2 marks each", "2 questions of 5 marks each">>}

\* the papers: an optional line with the total, an optional table header,
\* the distribution statements and one line for each question
LayerPapers ==
    {[total |-> total, table |-> table, distributions |-> d, forms |-> forms] :
        total \in BOOLEAN, table \in BOOLEAN, d \in DistributionLines,
        forms \in [1..MaxQuestions -> LineForms]}

\* the lines of a paper
PaperLines(paper) ==
    (IF paper.total THEN <<"MM: 10">> ELSE <<>>)
        \o (IF paper.table THEN <<"QUESTIONS             MARKS">> ELSE <<>>)
        \o paper.distributions
        \o [n \in 1..MaxQuestions |-> QuestionLineOf(n, paper.forms[n])]

\* the map questionMarks after the table layer, after the inline patterns,
\* after the distribution fill, and as extractQuestionMarks returns it
Layers(lines) ==
    With(IF marksColumnIndexFrom(lines, 1) > 0
         THEN TableFrom(lines, 1, marksColumnIndexFrom(lines, 1), {}) ELSE {},
         LAMBDA table :
    With(PatternLinesFrom(lines, 1, table), LAMBDA inline :
        [table |-> table, inline |-> inline,
         filled |-> FillMissing(markDistributionsFrom(lines, 1),
                                HeaderTotalFrom(lines, 1), inline),
         returned |-> legacyExtractQuestionMarks(lines),
         total |-> HeaderTotalFrom(lines, 1),
         distributions |-> markDistributionsFrom(lines, 1)]))

\* extractQuestionMarks is applied to the paper
ExtractLayers ==
    /\ flow = "layers" /\ turns[1].pc = "paper"
    /\ last' = [op |-> "extractQuestionMarks", msg |-> "", from |-> "none",
                note |-> Layers(turns[1].msg), end |-> "reply"]
    /\ UNCHANGED <<flow, others, session, turns>>

LayersInit ==
    /\ flow = "layers"
    /\ session = NoSession /\ others = NoOthers
    /\ \E paper \in LayerPapers :
          turns = [t \in Slots |->
                      IF t = 1
                      THEN [Idle EXCEPT !.pc = "paper", !.msg = PaperLines(paper),
                                        !.data = paper]
                      ELSE Idle]
    /\ last = NoTurn

LayersNext == ExtractLayers

SpecLayers == LayersInit /\ [][LayersNext]_vars

\* every entry of the map a is an entry of the map b
KeepsEntries(a, b) == \A e \in a : e \in b

\* a map holds one value for a question number
OneValueEach(m) == \A e \in m, f \in m : e[1] = f[1] => e = f

\* C33: a mark value that a layer assigned to a question is never changed by
\* a later layer: the inline patterns keep every entry of the table layer,
\* the distribution fill keeps every entry of the two, each layer holds one
\* value for a question, and the last-resort scan runs only when the map is
\* still empty, so a map that is not empty is returned as it is
C33_LayersKeepMarks ==
    last.op = "extractQuestionMarks" /\ flow = "layers"
        => /\ KeepsEntries(last.note.table, last.note.inline)
           /\ KeepsEntries(last.note.inline, last.note.filled)
           /\ OneValueEach(last.note.inline) /\ OneValueEach(last.note.filled)
           /\ last.note.filled # {} => last.note.returned = last.note.filled

\* the table layer read 4 marks for question 1, whose line also carries
\* "[3 marks]", and the map returned holds 4
C33_TableValueKept ==
    /\ last.op = "extractQuestionMarks" /\ flow = "layers"
    /\ turns[1].data.forms[1] = "both"
    /\ <<1, 4>> \in last.note.table /\ <<1, 4>> \in last.note.returned

\* the question numbers the distribution statements cover that have no mark
\* from the table layer or the inline patterns
Unmarked(note) ==
    {q \in 1..DistributionCount(note.distributions) : ~MapHas(note.inline, q)}

\* C34: the distribution statements "k questions of m marks each" are
\* applied positionally in declaration order: every question number up to
\* the declared count that has no mark from an earlier layer receives the
\* marks of the statement that covers its position, m1 for i <= k1, m2 for
\* k1 < i <= k1 + k2, and so on
C34_DistributionPositional ==
    (last.op = "extractQuestionMarks" /\ flow = "layers")
        => \A q \in Unmarked(last.note) :
              <<q, DistributionMarksAt(last.note.distributions, q)>> \in last.note.filled

-----------------------------------------------------------------------------
(* extractQuestionMarks(ocrText, subjectArea) of the revision of the CBSE   *)
(* engine in unnamed/part_004: the header total, the QUESTIONS/MARKS table, *)
(* the alternative scan of the lines, the block structure of an Economics   *)
(* paper and the rule of the first page.  In the state of a scan cur is     *)
(* currentQuestionNumber, open tells whether a question is being read       *)
(* (currentQuestionText is not empty in the table, inQuestion in the        *)
(* alternative scan), marks is questionMarks and texts is the key set of    *)
(* questionText                                                             *)

\* the table header: <<marksColumnIndex, index of the line after it>> for the
\* first of the first 40 lines whose trimmed, upper-cased text includes
\* QUESTIONS and MARKS (compared in lower case here), <<-1, 0>> when none does
RECURSIVE TableHeaderFrom(_, _)
TableHeaderFrom(lines, i) ==
    IF i > Len(lines) \/ i > 40 THEN <<-1, 0>>
    ELSE With(ToLower(Trim(lines[i])), LAMBDA line :
             IF Includes(line, "questions") /\ Includes(line, "marks")
             THEN <<IndexOfMarks(line), i + 1>>
             ELSE TableHeaderFrom(lines, i + 1))

\* /^(\d+)\s/ and, with dot, /^(\d+)[\.\s]/ : the digits, or ""
QNumMatch(line, dot) ==
    With(SkipWhile(line, 1, Digits), LAMBDA e :
        IF e > 1 /\ (StartsAt(line, e, " ") \/ (dot /\ StartsAt(line, e, ".")))
        THEN SubSeq(line, 1, e - 1) ELSE "")

\* the marks of the column: line.substring(marksColumnIndex).trim() matched
\* with /^(\d+)/ when marksColumnIndex > 0 and the line is longer, else ""
ColumnMarks(line, marksColumnIndex) ==
    IF marksColumnIndex > 0 /\ Len(line) > marksColumnIndex
    THEN With(Trim(SubSeq(line, marksColumnIndex + 1, Len(line))), LAMBDA marksSection :
             SubSeq(marksSection, 1, SkipWhile(marksSection, 1, Digits) - 1))
    ELSE ""

\* one pass of the table loop over a trimmed line
RevisedTableLine(line, marksColumnIndex, st) ==
    With(QNumMatch(line, FALSE), LAMBDA qNumMatch :
    With(ColumnMarks(line, marksColumnIndex), LAMBDA marksMatch :
        IF Len(line) = 0 THEN st
        ELSE IF qNumMatch # ""
        THEN [cur |-> ParseInt(qNumMatch),
              open |-> Len(Trim(SubSeq(line, Len(qNumMatch) + 2, Len(line)))) > 0,
              marks |-> IF marksMatch # ""
                        THEN MapSet(st.marks, ParseInt(qNumMatch), ParseInt(marksMatch))
                        ELSE st.marks,
              texts |-> IF st.cur > 0 /\ st.open THEN st.texts \cup {st.cur} ELSE st.texts]
        ELSE IF st.cur > 0
        THEN [st EXCEPT !.open = TRUE,
                        !.marks = IF ~MapHas(st.marks, st.cur) /\ marksMatch # ""
                                  THEN MapSet(st.marks, st.cur, ParseInt(marksMatch))
                                  ELSE st.marks]
        ELSE st))

\* /(\d+)\s*marks?$/i on a lower-cased line: the digits of the leftmost
\* match, or ""
EndMarks(s) ==
    With({q \in 1..Len(s) : MarkWordAt(s, q, "") # ""}, LAMBDA hits :
        IF hits = {} THEN "" ELSE MarkWordAt(s, Least(hits), ""))

\* /\s+(\d+)$/ : the digits at the end of the line after a space, or ""
EndNumber(s) ==
    With({q \in 2..Len(s) : IsSpace(CharAt(s, q - 1))
                              /\ SkipWhile(s, q, Digits) = Len(s) + 1}, LAMBDA hits :
        IF hits = {} THEN "" ELSE SubSeq(s, Least(hits), Len(s)))

\* the marks a question line of the alternative scan sets: those before the
\* word marks at its end when they are 1 to 10, else, when the line does
\* not end so, the number at its end when it is 1 to 10
QuestionLineMarks(line, marks, qNum) ==
    With(EndMarks(ToLower(line)), LAMBDA marksMatch :
    With(EndNumber(line), LAMBDA endNumMatch :
        IF marksMatch # ""
        THEN (IF ParseInt(marksMatch) > 0 /\ ParseInt(marksMatch) <= 10
              THEN MapSet(marks, qNum, ParseInt(marksMatch)) ELSE marks)
        ELSE IF endNumMatch # "" /\ ParseInt(endNumMatch) > 0 /\ ParseInt(endNumMatch) <= 10
        THEN MapSet(marks, qNum, ParseInt(endNumMatch))
        ELSE marks))

\* one pass of the alternative scan over a trimmed line
RevisedScanLine(line, st) ==
    With(QNumMatch(line, TRUE), LAMBDA qNumMatch :
    With(EndMarks(ToLower(line)), LAMBDA marksMatch :
        IF Len(line) = 0 THEN st
        ELSE IF qNumMatch # ""
        THEN [cur |-> ParseInt(qNumMatch),
              open |-> TRUE,
              marks |-> QuestionLineMarks(line, st.marks, ParseInt(qNumMatch)),
              texts |-> IF st.open /\ st.cur > 0 THEN st.texts \cup {st.cur} ELSE st.texts]
        ELSE IF st.open /\ ~MapHas(st.marks, st.cur) /\ marksMatch # ""
        THEN [st EXCEPT !.marks = MapSet(st.marks, st.cur, ParseInt(marksMatch))]
        ELSE st))

\* a scan of lines lo..hi, the passes over the first half of them and then
\* those over the rest; table tells the loop of the table from the
\* alternative scan
RECURSIVE RevisedLinesFrom(_, _, _, _, _, _)
RevisedLinesFrom(lines, lo, hi, table, marksColumnIndex, st) ==
    IF lo > hi THEN st
    ELSE IF lo = hi
    THEN (IF table THEN RevisedTableLine(Trim(lines[lo]), marksColumnIndex, st)
          ELSE RevisedScanLine(Trim(lines[lo]), st))
    ELSE After(RevisedLinesFrom(lines, lo, (lo + hi) \div 2, table, marksColumnIndex, st),
               LAMBDA half :
             RevisedLinesFrom(lines, (lo + hi) \div 2 + 1, hi, table, marksColumnIndex,
                              half))

\* the question that was being read when a scan ended is saved
SaveLast(st) ==
    [marks |-> st.marks,
     texts |-> IF st.cur > 0 /\ st.open THEN st.texts \cup {st.cur} ELSE st.texts]

\* the table, when its header was found, and the alternative scan when
\* the table set no marks: questionMarks and the keys of questionText
RevisedScans(ocrText) ==
    With(TableHeaderFrom(ocrText, 1), LAMBDA header :
    With(IF header[2] > 0
         THEN SaveLast(RevisedLinesFrom(ocrText, header[2], Len(ocrText), TRUE, header[1],
                           [cur |-> 0, open |-> FALSE, marks |-> {}, texts |-> {}]))
         ELSE [marks |-> {}, texts |-> {}], LAMBDA table :
        IF table.marks # {} THEN table
        ELSE SaveLast(RevisedLinesFrom(ocrText, 1, Len(ocrText), FALSE, 0,
                          [cur |-> 0, open |-> FALSE, marks |-> {},
                           texts |-> table.texts]))))

\* the marker lines of the sections of an Economics paper
SectionMarkers ==
    {"2 marks questions", "questions of 2 marks", "3 marks questions",
     "questions of 3 marks", "5 marks questions", "questions of 5 marks"}

\* found2MarksSection || found3MarksSection || found5MarksSection
HasSectionMarker(lines) ==
    \E i \in 1..Len(lines) : \E m \in SectionMarkers : Includes(ToLower(lines[i]), m)

\* the question numbers of the lines that match /^(\d+)[\.\s]/
NumberedLines(lines) ==
    {ParseInt(QNumMatch(Trim(lines[i]), TRUE)) :
        i \in {j \in 1..Len(lines) : QNumMatch(Trim(lines[j]), TRUE) # ""}}

\* the special case of an Economics paper: under the header total 40, with
\* no marks set and a marker line in the text, every numbered line gives its
\* question a text and, by its number, 2, 3 or 5 marks
EconomicsBlocks(lines, subjectArea, totalMarksInHeader, st) ==
    IF /\ subjectArea = "economics" /\ totalMarksInHeader = 40 /\ st.marks = {}
       /\ HasSectionMarker(lines)
    THEN With(NumberedLines(lines), LAMBDA qs :
             [marks |-> {<<q, 2>> : q \in qs \cap (1..5)}
                            \cup {<<q, 3>> : q \in qs \cap (6..10)}
                            \cup {<<q, 5>> : q \in qs \cap (11..13)},
              texts |-> st.texts \cup qs])
    ELSE st

\* the rule of the first page: when every question that has a text is
\* numbered 1 to 5 and no marks are set, each of them is given 2 marks
FirstPage(st) ==
    IF st.texts # {} /\ st.texts \subseteq 1..5 /\ st.marks = {}
    THEN [st EXCEPT !.marks = {<<q, 2>> : q \in st.texts}]
    ELSE st

\* extractQuestionMarks(ocrText, subjectArea): the header total, the keys of
\* questionText, the marks of the two scans and the marks returned
extractQuestionMarksOfSubject(ocrText, subjectArea) ==
    With(HeaderTotalFrom(ocrText, 1), LAMBDA totalMarksInHeader :
    With(RevisedScans(ocrText), LAMBDA scanned :
    With(FirstPage(EconomicsBlocks(ocrText, subjectArea, totalMarksInHeader, scanned)),
         LAMBDA result :
        [total |-> totalMarksInHeader, texts |-> result.texts,
         recovered |-> scanned.marks, marks |-> result.marks])))

-----------------------------------------------------------------------------
(* The fixed 40-mark block structure of extractQuestionMarks, in the        *)
(* revision of services/cbseChatService.ts and in that of unnamed/part_004, *)
(* applied to a paper: flow = "blocks"; slot 1 holds the lines of the paper *)
(* (msg) and how they were chosen (data); last shows the revision applied   *)
(* (op) and what it detected and returned (note)                            *)

\* the most questions a paper of the block check has
MaxPaperQuestions == 13

\* the header totals of the papers
PaperTotals == {30, 40}

\* the subject areas of the sessions the papers are sent in
PaperSubjects == {"economics", "science"}

\* how question 1 carries its marks: not at all, in brackets, or as the last
\* words of its line
InlineForms == {"none", "brackets", "words"}

\* the decimal text of a question number below 20
NumberText(n) ==
    IF n < 10 THEN DigitText[n] ELSE "1" \o (IF n = 10 THEN "0" ELSE DigitText[n - 10])

\* the papers: the header total, the subject area, whether a marker line of
\* a section follows the header, the last question number, a question that
\* is missing (0 when none is) and the inline marks of question 1
BlockPapers ==
    {[total |-> total, subject |-> subject, marker |-> marker, last |-> n,
      missing |-> k, marked |-> marked] :
        total \in PaperTotals, subject \in PaperSubjects, marker \in BOOLEAN,
        n \in 0..MaxPaperQuestions, k \in 0..MaxPaperQuestions,
        marked \in InlineForms}

\* the question numbers of a paper
PaperQuestions(paper) == {q \in 1..paper.last : q # paper.missing}

\* the lines of questions q..last of a paper
RECURSIVE BlockLinesFrom(_, _)
BlockLinesFrom(paper, q) ==
    IF q > paper.last THEN <<>>
    ELSE (IF q = paper.missing THEN <<>>
          ELSE IF q = 1 /\ paper.marked = "brackets" THEN <<"1. Define demand [2 marks]">>
          ELSE IF q = 1 /\ paper.marked = "words" THEN <<"1. Define demand 2 marks">>
          ELSE <<NumberText(q) \o ". Define demand">>)
         \o BlockLinesFrom(paper, q + 1)

\* the lines of a paper
BlockLines(paper) ==
    <<IF paper.total = 40 THEN "MM: 40" ELSE "MM: 30">>
        \o (IF paper.marker THEN <<"Questions of 2 marks">> ELSE <<>>)
        \o BlockLinesFrom(paper, 1)

\* extractQuestionMarks of services/cbseChatService.ts is applied to the
\* paper: the header total, the keys of questionText, the marks of the line
\* loop and the marks returned
ExtractBlocks ==
    /\ flow = "blocks" /\ turns[1].pc = "paper"
    /\ last' = [op |-> "extractQuestionMarks", msg |-> "", from |-> "none",
                note |-> [total |-> HeaderTotalFrom(turns[1].msg, 1),
                          texts |-> ExtractLines(turns[1].msg).texts,
                          recovered |-> ExtractLines(turns[1].msg).marks,
                          marks |-> extractQuestionMarks(turns[1].msg)],
                end |-> "reply"]
    /\ UNCHANGED <<flow, others, session, turns>>

\* extractQuestionMarks of unnamed/part_004 is applied to the paper with the
\* subject area of the session
ExtractBlocksOfSubject ==
    /\ flow = "blocks" /\ turns[1].pc = "paper"
    /\ last' = [op |-> "extractQuestionMarksOfSubject", msg |-> "", from |-> "none",
                note |-> extractQuestionMarksOfSubject(turns[1].msg,
                                                       turns[1].data.subject),
                end |-> "reply"]
    /\ UNCHANGED <<flow, others, session, turns>>

BlocksInit ==
    /\ flow = "blocks"
    /\ session = NoSession /\ others = NoOthers
    /\ \E paper \in BlockPapers :
          turns = [t \in Slots |->
                      IF t = 1
                      THEN [Idle EXCEPT !.pc = "paper", !.msg = BlockLines(paper),
                                        !.data = paper]
                      ELSE Idle]
    /\ last = NoTurn

BlocksNext == ExtractBlocks \/ ExtractBlocksOfSubject

SpecBlocks == BlocksInit /\ [][BlocksNext]_vars

\* the blocks of the structure: <<question numbers, marks of each>>
Blocks == {<<1..5, 2>>, <<6..10, 3>>, <<11..13, 5>>}

\* an extractor was applied to a paper of the block check
BlocksExtracted ==
    /\ flow = "blocks"
    /\ last.op \in {"extractQuestionMarks", "extractQuestionMarksOfSubject"}

\* the structure was applied: marks were given by question number, beyond
\* those the scans of the lines had recovered
BlocksApplied == last.note.marks # last.note.recovered

\* C35: the block structure is applied only when the header total is 40 and
\* no marks were otherwise recovered, and when it is applied every detected
\* question numbered 1-5 receives 2 marks, every detected question numbered
\* 6-10 receives 3 and every detected question numbered 11-13 receives 5, so
\* that 13 detected questions sum to 40, in both revisions of the extractor
C35_BlockStructure ==
    (BlocksExtracted /\ BlocksApplied)
        => /\ last.note.total = 40 /\ last.note.recovered = {}
           /\ \A b \in Blocks : \A q \in b[1] \cap last.note.texts :
                 <<q, b[2]>> \in last.note.marks
           /\ (1..13 \subseteq last.note.texts => MapSum(last.note.marks) = 40)

-----------------------------------------------------------------------------
\* a turn of the CBSE flow has ended and no turn is in flight
CbseEndOfTurn == flow = "cbse" /\ AllIdle /\ session # NoSession

\* the question paper and the marks map of the session are set
PaperAndMarksSet(s) == s.questionPaper # None /\ s.questionMarks # None

\* C36: under sequential turns of the CBSE flow, in every end-of-turn state
\* WAITING_FOR_SUBJECT implies that classLevel is set,
\* WAITING_FOR_QUESTION_PAPER that classLevel and subjectArea are set,
\* WAITING_FOR_MARKS_CONFIRMATION and WAITING_FOR_MARKS_UPDATE that
\* questionPaper and the marks map are set, and WAITING_FOR_STUDENT_ANSWER
\* in addition that isMarkingConfirmed is true, so that the guard of
\* processStudentAnswerUrl for a missing prerequisite never fires
C36_StepPrerequisites ==
    CbseEndOfTurn
        => /\ session.step = WAITING_FOR_SUBJECT => session.classLevel # Null
           /\ session.step = WAITING_FOR_QUESTION_PAPER
                 => session.classLevel # Null /\ session.subjectArea # Null
           /\ session.step \in {WAITING_FOR_MARKS_CONFIRMATION, WAITING_FOR_MARKS_UPDATE}
                 => PaperAndMarksSet(session)
           /\ session.step = WAITING_FOR_STUDENT_ANSWER
                 => PaperAndMarksSet(session) /\ session.isMarkingConfirmed
           /\ last.note # "not_ready"

-----------------------------------------------------------------------------
\* the steps in which the marks map waits for the user
MarksReviewSteps == {WAITING_FOR_MARKS_CONFIRMATION, WAITING_FOR_MARKS_UPDATE}

\* C37: whenever the step is WAITING_FOR_MARKS_CONFIRMATION or
\* WAITING_FOR_MARKS_UPDATE, isMarkingConfirmed is false: a marks map newly
\* extracted or corrected is never flagged as confirmed before the user has
\* confirmed it, over any sequence of turns
C37_UnconfirmedWhileReviewed ==
    (session # NoSession /\ session.step \in MarksReviewSteps)
        => ~session.isMarkingConfirmed

-----------------------------------------------------------------------------
\* how a turn that took the question-paper branch ends: with the marks
\* (extracted, structured, or "" in the subclass revision) or with a failure
\* of the upload, of the OCR or vision call or of the structure call
QuestionPaperNotes ==
    {"", "extracted", "structured", "upload_failed", "ocr_failed", "structure_failed"}

\* the turn that ended last took an image in WAITING_FOR_QUESTION_PAPER: it
\* is the turn that stores PROCESSING_QUESTION_PAPER and, after the OCR,
\* EXTRACTING_QUESTION_MARKS
QuestionPaperTurnEnded ==
    /\ last.op \in {"upload", "url"} /\ last.from = WAITING_FOR_QUESTION_PAPER
    /\ last.end # "" /\ last.note \in QuestionPaperNotes

\* C38: every turn that sets the step to PROCESSING_QUESTION_PAPER or to
\* EXTRACTING_QUESTION_MARKS ends, for every outcome of the OCR or vision
\* call and of the call of the language model, in
\* WAITING_FOR_MARKS_CONFIRMATION or back in WAITING_FOR_QUESTION_PAPER, so
\* that an image sent again after a failure is taken as the question paper
C38_QuestionPaperTurnSettles ==
    QuestionPaperTurnEnded
        => session.step \in {WAITING_FOR_MARKS_CONFIRMATION, WAITING_FOR_QUESTION_PAPER}

-----------------------------------------------------------------------------
\* the texts that read as a question about the last grading: they contain
\* "why", "how", "explain", "clarify" or "?"
FollowUpTexts ==
    {m \in SimpleMessages :
        \E w \in {"why", "how", "explain", "clarify", "?"} : Includes(ToLower(m), w)}

\* C39: in the simple flow a follow-up question (a text containing "why",
\* "how", "explain", "clarify" or "?") sent in COMPLETE or in FOLLOW_UP ends
\* the turn in FOLLOW_UP with question, studentAnswer and
\* previousGradingResults unchanged, however many follow-ups are sent in a
\* row
C39_FollowUpKeepsGrading ==
    [][\A m \in FollowUpTexts :
          (/\ flow = "simple"
           /\ StepOf(session) \in {COMPLETE, FOLLOW_UP}
           /\ SimpleTextMessage(m))
          => /\ session'.step = FOLLOW_UP
             /\ session'.question = session.question
             /\ session'.studentAnswer = session.studentAnswer
             /\ session'.previousGradingResults = session.previousGradingResults]_vars

-----------------------------------------------------------------------------
(* The conversation history: generateConversationalResponse of              *)
(* services/cbseChatService.ts with the entries themselves.  An entry is    *)
(* <<n, role>>: n numbers the exchanges in the order in which they are      *)
(* written to the session, so that the entries ever written are, in         *)
(* chronological order, <<1, "user">>, <<1, "assistant">>, <<2, "user">>,   *)
(* ...  The number of exchanges written so far is kept in last.written.     *)

\* the conversation model no longer answers once this many exchanges have
\* been written: its call fails instead
MaxExchanges == 9

HistoryMessages == {"hi", "Class 10 math", "yes", "reset"}

\* s.slice(-k)
SliceLast(s, k) == IF Len(s) > k THEN SubSeq(s, Len(s) - k + 1, Len(s)) ELSE s

\* [...history, {role: "user", ...}, {role: "assistant", ...}]
updatedHistory(history, n) == history \o <<(<<n, "user">>), (<<n, "assistant">>)>>

\* updatedHistory.slice(-15)
trimmedHistory(updated) == SliceLast(updated, MaxHistoryKept)

\* the fields getOrCreateSession writes when the session has no class level,
\* the history being the array of its entries
HistoryFreshFields == [CbseFreshFields EXCEPT !.conversationHistory = Some(<<>>)]

\* CbseChatService.getOrCreateSession: the stored session afterwards
historyGetOrCreateSession(s) ==
    IF getSession(s).classLevel = Null
    THEN updateSession(getSession(s), HistoryFreshFields)
    ELSE getSession(s)

\* session.conversationHistory || []
EntriesOrEmpty(o) == IF o = None THEN <<>> ELSE Val(o)

\* processTextMessage up to the await of generateConversation:
\* getOrCreateSession, processMessageIntent, and in
\* generateConversationalResponse getOrCreateSession again and the read of
\* the history
HistoryTextMessage(t, message) ==
    /\ flow = "history" /\ Free(t)
    /\ last.written < MaxExchanges
    /\ With(historyGetOrCreateSession(session), LAMBDA snap :
         With(historyGetOrCreateSession(CbseIntentOf(snap, CbseParsed[message], snap)),
              LAMBDA s :
                /\ session' = s
                /\ Goto(t, NewTurn("text", "", ""), "conv",
                        Keep(s, {"conversationHistory"}), <<>>, "")))
    /\ UNCHANGED <<flow, others, last>>

\* generateConversation resolved: the history read before the await is
\* extended, trimmed and stored, and the turn returns
HistoryConversationReply(t) ==
    /\ flow = "history" /\ turns[t].pc = "conv"
    /\ last.written < MaxExchanges
    /\ session' = updateSession(session,
          [conversationHistory |->
               Some(trimmedHistory(updatedHistory(
                        EntriesOrEmpty(turns[t].snap.conversationHistory),
                        last.written + 1)))])
    /\ turns' = [turns EXCEPT ![t] = Idle]
    /\ last' = [op |-> turns[t].op, msg |-> "", from |-> "",
                note |-> "answered", end |-> "reply", written |-> last.written + 1]
    /\ UNCHANGED <<flow, others>>

\* generateConversation threw: getFallbackResponse, nothing is written
HistoryConversationFails(t) ==
    /\ flow = "history" /\ turns[t].pc = "conv"
    /\ RemoteRejects("generateConversation")
    /\ turns' = [turns EXCEPT ![t] = Idle]
    /\ last' = [op |-> turns[t].op, msg |-> "", from |-> "",
                note |-> "fallback", end |-> "reply", written |-> last.written]
    /\ UNCHANGED <<flow, others, session>>

HistoryInit ==
    /\ flow = "history"
    /\ session = NoSession /\ others = NoOthers
    /\ turns = [t \in Slots |-> Idle]
    /\ last = [op |-> "", msg |-> "", from |-> "", note |-> "", end |-> "",
               written |-> 0]

HistoryNext ==
    \E t \in Slots :
        \/ \E message \in HistoryMessages : HistoryTextMessage(t, message)
        \/ HistoryConversationReply(t)
        \/ HistoryConversationFails(t)

SpecHistory == HistoryInit /\ [][HistoryNext]_vars

\* the entries of the exchanges a..b in chronological order
RECURSIVE Exchanges(_, _)
Exchanges(a, b) == IF a > b THEN <<>> ELSE updatedHistory(Exchanges(a, b - 1), b)

\* the k most recent of the entries written so far
MostRecent(k) == SliceLast(Exchanges(1, last.written), k)

\* the history of the stored session
StoredHistory == IF session = NoSession THEN <<>> ELSE EntriesOrEmpty(session.conversationHistory)

\* C40: in every reachable state the conversationHistory of a CBSE session
\* holds at most 15 entries, and they are the most recent entries written,
\* in chronological order
C40_HistoryMostRecent ==
    flow = "history" =>
        /\ Len(StoredHistory) <= MaxHistoryKept
        /\ StoredHistory = MostRecent(Len(StoredHistory))
====
